---- MODULE Spec2Model ----
(***************************************************************************)
(* Model of the calculation engine of the bioenergy project dashboard:     *)
(*   src/feedstock_data.py          feedstock yield model                  *)
(*   src/process_calculations.py    process sizing model                   *)
(*   src/financial_calculations.py  cost model and financial solver        *)
(*                                                                         *)
(* Every core function is modelled as an operator computed the way the     *)
(* code computes it, and as an action that calls it once on arguments      *)
(* drawn from bounded sets.  The state is the last call: the function      *)
(* called, its arguments, and what it returned or raised.                  *)
(*                                                                         *)
(* Numbers: a Python float is modelled by an exact rational <<n, d>> in    *)
(* lowest terms with d > 0.  The three values of a float that are not      *)
(* rationals are <<1, 0>> (inf), <<-1, 0>> (-inf) and <<0, 0>> (nan).      *)
(***************************************************************************)
EXTENDS Integers, Sequences, FiniteSets, TLC

VARIABLES
    pc,     \* "ready": the call of fn on args is about to be made; "done": it was made
    fn,     \* the function called
    args,   \* its arguments
    ret,    \* what it returned or raised
    prev,   \* the call made before this one in the same run: [fn, args, ret]
    locals  \* the local variables of the financial solver when the call left it

vars == <<pc, fn, args, ret, prev, locals>>

(***************************************************************************)
(* Bounds of the model.                                                    *)
(***************************************************************************)
MaxVolumeK == 5
MaxCapacityK == 2
MaxFeedK == 2
MaxCapexK == 2
MaxOpexK == 2
MaxEnergy == 2
MaxLifetime == 3
MaxRateK == 2
MaxRows == 2
MaxTargetK == 100
MaxVsK == 3
MaxMethaneK == 3
MaxRevenueK == 2
MaxFinLifetime == 2
MaxDebtK == 2
MaxDebtTerm == 2

MaxLoanCapexM == 2

MaxLoanTerm == 10

MaxIrrCapexK == 2

MaxIrrRevenueK == 3

MaxIrrLifetime == 2

MaxLargeTargetK == 250

MaxCalls == 3

MaxScale == 3

(***************************************************************************)
(* Float arithmetic.                                                       *)
(***************************************************************************)
Abs(x) == IF x < 0 THEN -x ELSE x

RECURSIVE Gcd(_, _)
Gcd(a, b) == IF b = 0 THEN a ELSE Gcd(b, a % b)

\* The float n/d (d # 0), in lowest terms with a positive denominator.
F(n, d) ==
    LET g == Gcd(Abs(n), Abs(d))
        s == IF d < 0 THEN -1 ELSE 1
    IN  <<(s * n) \div g, (s * d) \div g>>

Num(k) == <<k, 1>>

Zero == Num(0)

INF == <<1, 0>>

NAN == <<0, 0>>

IsNarrow(a) == Len(a) = 2

IsFinite(a) == ~IsNarrow(a) \/ a[2] # 0

(***************************************************************************)
(* Wide floats.  The integers of the model checker have 32 bits; a float   *)
(* whose numerator or denominator needs more is <<s, n, d>>: its sign s    *)
(* (-1, 0 or 1) and the naturals n and d (d > 0), each a sequence of limbs *)
(* in base 10000, least significant first, without leading zeros.  A wide  *)
(* float is not reduced to lowest terms: wide floats are compared with Lt, *)
(* Le and Sign, not with =.                                                *)
(***************************************************************************)
RECURSIVE WNat(_)
WNat(k) == IF k = 0 THEN <<>> ELSE <<k % 10000>> \o WNat(k \div 10000)

RECURSIVE WVal(_)
WVal(n) == IF n = <<>> THEN 0 ELSE Head(n) + 10000 * WVal(Tail(n))

RECURSIVE WStrip(_)
WStrip(n) ==
    IF n # <<>> /\ n[Len(n)] = 0 THEN WStrip(SubSeq(n, 1, Len(n) - 1)) ELSE n

WRest(n) == IF n = <<>> THEN <<>> ELSE Tail(n)

WLow(n) == IF n = <<>> THEN 0 ELSE Head(n)

RECURSIVE WAddN(_, _, _)
WAddN(a, b, carry) ==
    IF a = <<>> /\ b = <<>> THEN (IF carry = 0 THEN <<>> ELSE <<carry>>)
    ELSE LET x == WLow(a) + WLow(b) + carry
         IN  <<x % 10000>> \o WAddN(WRest(a), WRest(b), x \div 10000)

\* a - b - borrow for a >= b + borrow, not yet stripped.
RECURSIVE WSubN(_, _, _)
WSubN(a, b, borrow) ==
    IF a = <<>> THEN <<>>
    ELSE LET x == Head(a) - WLow(b) - borrow
         IN  <<IF x < 0 THEN x + 10000 ELSE x>>
             \o WSubN(Tail(a), WRest(b), IF x < 0 THEN 1 ELSE 0)

RECURSIVE WCmpFrom(_, _, _)
WCmpFrom(a, b, i) ==
    IF i = 0 THEN 0
    ELSE IF a[i] < b[i] THEN -1
    ELSE IF a[i] > b[i] THEN 1
    ELSE WCmpFrom(a, b, i - 1)

\* -1, 0 or 1 as a < b, a = b or a > b.
WCmpN(a, b) ==
    IF Len(a) < Len(b) THEN -1
    ELSE IF Len(a) > Len(b) THEN 1
    ELSE WCmpFrom(a, b, Len(a))

\* a * k + carry for a limb k, not yet stripped.
RECURSIVE WMulSmall(_, _, _)
WMulSmall(a, k, carry) ==
    IF a = <<>> THEN (IF carry = 0 THEN <<>> ELSE <<carry>>)
    ELSE LET x == Head(a) * k + carry
         IN  <<x % 10000>> \o WMulSmall(Tail(a), k, x \div 10000)

RECURSIVE WMulN(_, _)
WMulN(a, b) ==
    IF a = <<>> \/ b = <<>> THEN <<>>
    ELSE WStrip(WAddN(WMulSmall(a, Head(b), 0), <<0>> \o WMulN(a, Tail(b)), 0))

Widen(a) ==
    IF IsNarrow(a)
    THEN <<IF a[1] < 0 THEN -1 ELSE IF a[1] > 0 THEN 1 ELSE 0, WNat(Abs(a[1])), WNat(a[2])>>
    ELSE a

\* Back to <<n, d>> in lowest terms when n and d are below 10^8.
Narrow(w) ==
    IF w[1] = 0 THEN Zero
    ELSE IF Len(w[2]) <= 2 /\ Len(w[3]) <= 2 THEN F(w[1] * WVal(w[2]), WVal(w[3]))
    ELSE w

WMul(a, b) == Narrow(<<a[1] * b[1], WMulN(a[2], b[2]), WMulN(a[3], b[3])>>)

\* x / d + y / d for the signed naturals (sx, x) and (sy, y): c compares x with y.
WAddAligned(sx, x, sy, y, d, c) ==
    Narrow(IF sx = sy THEN <<sx, WAddN(x, y, 0), d>>
           ELSE IF c = 0 THEN <<0, <<>>, <<1>>>>
           ELSE IF c > 0 THEN <<sx, WStrip(WSubN(x, y, 0)), d>>
           ELSE <<sy, WStrip(WSubN(y, x, 0)), d>>)

WAddCross(sx, x, sy, y, d) == WAddAligned(sx, x, sy, y, d, WCmpN(x, y))

WAdd(a, b) ==
    IF a[3] = b[3] THEN WAddCross(a[1], a[2], b[1], b[2], a[3])
    ELSE WAddCross(a[1], WMulN(a[2], b[3]), b[1], WMulN(b[2], a[3]), WMulN(a[3], b[3]))

\* x * y is a 32-bit integer.
Fits(x, y) == x = 0 \/ y = 0 \/ Abs(y) <= 2147483647 \div Abs(x)

\* x + y is a 32-bit integer.
SumFits(x, y) == (x < 0) # (y < 0) \/ Abs(x) <= 2147483647 - Abs(y)

\* a[1] / (p * g) + b[1] / (q * g) in 32-bit integers.
AddFits(a, b, p, q) ==
    Fits(p, b[2]) /\ Fits(a[1], q) /\ Fits(b[1], p) /\ SumFits(a[1] * q, b[1] * p)

AddOver(a, b, g) ==
    IF AddFits(a, b, a[2] \div g, b[2] \div g)
    THEN F(a[1] * (b[2] \div g) + b[1] * (a[2] \div g), (a[2] \div g) * b[2])
    ELSE WAdd(Widen(a), Widen(b))

Add(a, b) ==
    IF IsNarrow(a) /\ IsNarrow(b) THEN AddOver(a, b, Gcd(a[2], b[2]))
    ELSE WAdd(Widen(a), Widen(b))

Neg(a) == IF IsNarrow(a) THEN <<-a[1], a[2]>> ELSE <<-a[1], a[2], a[3]>>

Sub(a, b) == Add(a, Neg(b))

\* a * b after dividing by h1 = gcd(|a[1]|, b[2]) and h2 = gcd(|b[1]|, a[2]).
MulOver(a, b, h1, h2) ==
    IF Fits(a[1] \div h1, b[1] \div h2) /\ Fits(a[2] \div h2, b[2] \div h1)
    THEN F((a[1] \div h1) * (b[1] \div h2), (a[2] \div h2) * (b[2] \div h1))
    ELSE WMul(Widen(a), Widen(b))

\* gcd(x, y), and 1 for gcd(0, 0).
Gcd1(x, y) == IF x = 0 /\ y = 0 THEN 1 ELSE Gcd(x, y)

Mul(a, b) ==
    IF IsNarrow(a) /\ IsNarrow(b)
    THEN MulOver(a, b, Gcd1(Abs(a[1]), b[2]), Gcd1(Abs(b[1]), a[2]))
    ELSE WMul(Widen(a), Widen(b))

\* 1 / b for b # 0.
Reciprocal(b) ==
    IF IsNarrow(b) THEN (IF b[1] < 0 THEN <<-b[2], -b[1]>> ELSE <<b[2], b[1]>>)
    ELSE <<b[1], b[3], b[2]>>

\* a / b for b # 0; the callers model what Python does when b = 0.
Div(a, b) == Mul(a, Reciprocal(b))

Sign(a) == IF a[1] < 0 THEN -1 ELSE IF a[1] > 0 THEN 1 ELSE 0

Lt(a, b) == Sign(Sub(a, b)) < 0

Le(a, b) == Sign(Sub(a, b)) <= 0

Square(a) == Mul(a, a)

\* a ** k for an int k >= 0, by squaring.
RECURSIVE Pow(_, _)
Pow(a, k) ==
    IF k = 0 THEN Num(1)
    ELSE IF IsNarrow(a) /\ a[2] = 0 THEN <<a[1] ^ k, 0>>
    ELSE IF k = 1 THEN a
    ELSE IF k % 2 = 0 THEN Square(Pow(a, k \div 2))
    ELSE Mul(Square(Pow(a, k \div 2)), a)

RECURSIVE SumOver(_, _)
SumOver(d, keys) ==
    IF keys = {} THEN Zero
    ELSE LET k == CHOOSE x \in keys : TRUE
         IN  Add(d[k], SumOver(d, keys \ {k}))

(***************************************************************************)
(* What a call does: it returns a value or raises an exception.            *)
(***************************************************************************)
Returned(v) == [raised |-> "none", value |-> v]

Raised(e) == [raised |-> e, value |-> <<>>]

\* A dict with no entries.
NoEntries == [k \in {} |-> Zero]

NoCall == [fn |-> "none", args |-> NoEntries, ret |-> Returned(NoEntries)]

ThisCall == [fn |-> fn, args |-> args, ret |-> ret]

Done(f) == pc = "done" /\ fn = f

(***************************************************************************)
(* Cost model: src/financial_calculations.py                               *)
(***************************************************************************)
capex_total_without_contingency(subtotal, epc_cost, contingency) ==
    Add(subtotal, epc_cost)

\* total_capex, lines 62-64; subtotal is the sum of the first six terms.
capex_total(subtotal, epc_cost, contingency) ==
    Add(Add(subtotal, epc_cost), contingency)

capex_name_always_upgrading(output_type) == "Biogas Upgrading System"

\* output_specific_name, lines 37-51.
capex_output_specific_name(output_type) ==
    IF output_type = "biogas" THEN "Biogas Upgrading System" ELSE "CHP System"

calculate_capex(digester_volume, output_type, chp_capacity) ==
    LET digester_cost == Mul(digester_volume, Num(500))
        reception_cost == Mul(F(15, 100), digester_cost)
        biogas_handling_cost == Mul(F(1, 10), digester_cost)
        digestate_handling_cost == Mul(F(12, 100), digester_cost)
        control_systems_cost == Mul(F(8, 100), digester_cost)
        biogas_output_m3h == Div(Mul(digester_volume, F(15, 10)), Num(8760))
        upgrading_cost == Mul(biogas_output_m3h, Num(10000))
        chp_cost == Mul(chp_capacity, Num(1500))
        output_specific_cost ==
            IF output_type = "biogas" THEN upgrading_cost ELSE chp_cost
        output_specific_name == capex_output_specific_name(output_type)
        subtotal ==
            Add(Add(Add(Add(Add(digester_cost, reception_cost), biogas_handling_cost),
                        digestate_handling_cost), control_systems_cost),
                output_specific_cost)
        epc_cost == Mul(F(15, 100), subtotal)
        contingency == Mul(F(1, 10), Add(subtotal, epc_cost))
        total_capex == capex_total(subtotal, epc_cost, contingency)
    IN  ("Digester System" :> digester_cost)
        @@ ("Reception and Pre-treatment" :> reception_cost)
        @@ ("Biogas Handling" :> biogas_handling_cost)
        @@ ("Digestate Handling" :> digestate_handling_cost)
        @@ ("Control Systems" :> control_systems_cost)
        @@ (output_specific_name :> output_specific_cost)
        @@ ("EPC Costs" :> epc_cost)
        @@ ("Contingency" :> contingency)
        @@ ("Total CAPEX" :> total_capex)

getitem_or_zero(d, key) == IF key \in DOMAIN d THEN Returned(d[key]) ELSE Returned(Zero)

\* d[key] of a dict: the entry, or KeyError.
getitem(d, key) == IF key \in DOMAIN d THEN Returned(d[key]) ELSE Raised("KeyError")

opex_total_without_utilities(maintenance_cost, labor_cost, consumables_cost, insurance_cost, output_specific_cost, utilities_cost) ==
    Add(Add(Add(Add(maintenance_cost, labor_cost), consumables_cost),
            insurance_cost), output_specific_cost)

\* total_opex, lines 131-132.
opex_total(maintenance_cost, labor_cost, consumables_cost, insurance_cost, output_specific_cost, utilities_cost) ==
    Add(Add(Add(Add(Add(maintenance_cost, labor_cost), consumables_cost),
                insurance_cost), output_specific_cost), utilities_cost)

calculate_opex(total_feedstock, digester_volume, output_type, capex, chp_capacity) ==
    IF getitem(capex, "Total CAPEX").raised # "none" THEN getitem(capex, "Total CAPEX")
    ELSE IF output_type = "biogas" /\ getitem(capex, "Biogas Upgrading System").raised # "none"
    THEN getitem(capex, "Biogas Upgrading System")
    ELSE
    LET maintenance_cost == Mul(F(3, 100), capex["Total CAPEX"])
        labor_cost ==
            IF Lt(digester_volume, Num(2000)) THEN Num(150000)
            ELSE IF Lt(digester_volume, Num(5000)) THEN Num(250000)
            ELSE Num(350000)
        consumables_cost == Mul(total_feedstock, F(25, 10))
        insurance_cost == Mul(F(1, 100), capex["Total CAPEX"])
        output_specific_cost ==
            IF output_type = "biogas"
            THEN Mul(F(5, 100), getitem(capex, "Biogas Upgrading System").value)
            ELSE Mul(Mul(chp_capacity, Num(8000)), F(2, 100))
        output_specific_name ==
            IF output_type = "biogas" THEN "Biogas Upgrading O&M" ELSE "CHP Maintenance"
        utilities_cost == Mul(digester_volume, Num(15))
        total_opex ==
            opex_total(maintenance_cost, labor_cost, consumables_cost,
                       insurance_cost, output_specific_cost, utilities_cost)
    IN  Returned(("Maintenance" :> maintenance_cost)
                 @@ ("Labor" :> labor_cost)
                 @@ ("Consumables" :> consumables_cost)
                 @@ ("Insurance" :> insurance_cost)
                 @@ (output_specific_name :> output_specific_cost)
                 @@ ("Utilities" :> utilities_cost)
                 @@ ("Total OPEX" :> total_opex))

(***************************************************************************)
(* Financial solver, levelized cost: src/financial_calculations.py         *)
(***************************************************************************)
discounted_from_year0(amount, discount_rate, year) ==
    Div(amount, Pow(Add(Num(1), discount_rate), year - 1))

\* amount / ((1 + discount_rate) ** year), lines 167 and 172.
discounted(amount, discount_rate, year) ==
    Div(amount, Pow(Add(Num(1), discount_rate), year))

\* for year in range(1, project_lifetime + 1): acc += amount / (...), on the loop's
\* state [year, acc] before a pass.
RECURSIVE present_value(_, _, _, _)
present_value(loop, amount, discount_rate, project_lifetime) ==
    IF loop.year > project_lifetime THEN loop.acc
    ELSE present_value([year |-> loop.year + 1,
                        acc |-> Add(loop.acc, discounted(amount, discount_rate, loop.year))],
                       amount, discount_rate, project_lifetime)

lcoe_ratio_inverted(pv_costs, pv_energy) ==
    IF Sign(pv_energy) > 0 /\ Sign(pv_costs) # 0
    THEN Returned(Div(pv_energy, pv_costs))
    ELSE Returned(Zero)

lcoe_ratio_unguarded(pv_costs, pv_energy) ==
    IF Sign(pv_energy) = 0 THEN Raised("ZeroDivisionError")
    ELSE Returned(Div(pv_costs, pv_energy))

\* lcoe = pv_costs / pv_energy if pv_energy > 0 else 0, line 175.
lcoe_ratio(pv_costs, pv_energy) ==
    IF Sign(pv_energy) > 0 THEN Returned(Div(pv_costs, pv_energy)) ELSE Returned(Zero)

calculate_lcoe(capex, opex, annual_energy_output, project_lifetime, discount_rate) ==
    IF Sign(annual_energy_output) <= 0 THEN Returned(Zero)
    ELSE IF "Total CAPEX" \notin DOMAIN capex \/ "Total OPEX" \notin DOMAIN opex
    THEN Raised("KeyError")
    ELSE IF project_lifetime >= 1 /\ Sign(Add(Num(1), discount_rate)) = 0
    THEN Raised("ZeroDivisionError")
    ELSE
    LET total_capex == capex["Total CAPEX"]
        annual_opex == opex["Total OPEX"]
        pv_costs == present_value([year |-> 1, acc |-> total_capex], annual_opex,
                                  discount_rate, project_lifetime)
        pv_energy == present_value([year |-> 1, acc |-> Zero], annual_energy_output,
                                   discount_rate, project_lifetime)
    IN  lcoe_ratio(pv_costs, pv_energy)

(***************************************************************************)
(* Financial solver, project metrics: src/financial_calculations.py        *)
(***************************************************************************)
debt_service_straight_line(debt_amount, debt_interest, debt_term) ==
    IF debt_term = 0 THEN Raised("ZeroDivisionError")
    ELSE Returned(Div(debt_amount, Num(debt_term)))

\* Line 208 for growth = (1 + debt_interest) ** debt_term.
annuity_payment(debt_amount, debt_interest, growth) ==
    IF Sign(Sub(growth, Num(1))) = 0 THEN Raised("ZeroDivisionError")
    ELSE Returned(Div(Mul(Mul(debt_amount, debt_interest), growth), Sub(growth, Num(1))))

\* Lines 207-210.
debt_service(debt_amount, debt_interest, debt_term) ==
    IF Sign(debt_interest) > 0
    THEN annuity_payment(debt_amount, debt_interest,
                         Pow(Add(Num(1), debt_interest), debt_term))
    ELSE IF debt_term = 0 THEN Raised("ZeroDivisionError")
    ELSE Returned(Div(debt_amount, Num(debt_term)))

\* max(0, x), line 234.
max0(x) == IF Sign(x) > 0 THEN x ELSE Zero

cash_flow_debt_every_year(year, annual_revenue, annual_opex, annual_debt_service, debt_term, tax_rate) ==
    Sub(Sub(Sub(annual_revenue, annual_opex), annual_debt_service),
        max0(Mul(Sub(Sub(annual_revenue, annual_opex), Mul(annual_debt_service, F(3, 10))),
                 tax_rate)))

\* The body of the loop of lines 219-238: the cash flow of one year.
cash_flow(year, annual_revenue, annual_opex, annual_debt_service, debt_term, tax_rate) ==
    IF year <= debt_term
    THEN Sub(Sub(Sub(annual_revenue, annual_opex), annual_debt_service),
             max0(Mul(Sub(Sub(annual_revenue, annual_opex),
                          Mul(annual_debt_service, F(3, 10))),
                      tax_rate)))
    ELSE Sub(Sub(annual_revenue, annual_opex),
             max0(Mul(Sub(annual_revenue, annual_opex), tax_rate)))

\* npv = cash_flows[0]; for year, cf in enumerate(cash_flows[1:], 1): npv += cf / (1 + rate) ** year
\* The list cash_flows[0..lifetime] is the sequence cash_flows[1..lifetime + 1].
\* On the loop's state [year, acc] before a pass.
RECURSIVE net_present_value(_, _, _)
net_present_value(loop, cash_flows, rate) ==
    IF loop.year + 1 > Len(cash_flows) THEN loop.acc
    ELSE net_present_value([year |-> loop.year + 1,
                            acc |-> Add(loop.acc, discounted(cash_flows[loop.year + 1],
                                                             rate, loop.year))],
                           cash_flows, rate)

irr_update_without_halving(search, npv_at_irr) ==
    LET flip == Sign(npv_at_irr) * search.direction < 0
        direction == IF flip THEN -search.direction ELSE search.direction
    IN  IF Lt(Num(-1), npv_at_irr) /\ Lt(npv_at_irr, Num(1))
        THEN [search EXCEPT !.stopped = TRUE]
        ELSE [irr |-> Add(search.irr, Mul(search.step, Num(direction))),
              step |-> search.step, direction |-> direction, stopped |-> FALSE]

\* Lines 256-263 of one pass on the state [irr, step, direction, stopped] of the
\* search; stopped says that the pass ended in the break of line 257.
irr_update(search, npv_at_irr) ==
    LET flip == Sign(npv_at_irr) * search.direction < 0
        direction == IF flip THEN -search.direction ELSE search.direction
        step == IF flip THEN Div(search.step, Num(2)) ELSE search.step
    IN  IF Lt(Num(-1), npv_at_irr) /\ Lt(npv_at_irr, Num(1))
        THEN [search EXCEPT !.stopped = TRUE]
        ELSE [irr |-> Add(search.irr, Mul(step, Num(direction))), step |-> step,
              direction |-> direction, stopped |-> FALSE]

\* One pass of the loop of lines 251-263.
irr_pass(cash_flows, search) ==
    irr_update(search,
               net_present_value([year |-> 1, acc |-> cash_flows[1]], cash_flows,
                                 search.irr))

\* for _ in range(20), from the n-th pass on.
RECURSIVE irr_search(_, _, _)
irr_search(cash_flows, search, n) ==
    IF n = 20 \/ search.stopped THEN search
    ELSE irr_search(cash_flows, irr_pass(cash_flows, search), n + 1)

\* irr = 0.1; step = 0.05; direction = 1, lines 247-249.
irr_start == [irr |-> F(1, 10), step |-> F(5, 100), direction |-> 1, stopped |-> FALSE]

\* The loop of lines 269-272 from `year` on: [cumulative_cf, payback_period].
RECURSIVE payback_loop(_, _, _, _)
payback_loop(cash_flows, year, cumulative_cf, payback_period) ==
    IF year + 1 > Len(cash_flows)
    THEN [cumulative_cf |-> cumulative_cf, payback_period |-> payback_period]
    ELSE LET cumulative == Add(cumulative_cf, cash_flows[year + 1])
         IN  payback_loop(cash_flows, year + 1, cumulative,
                          IF Sign(cumulative) >= 0 /\ payback_period = 0
                          THEN year ELSE payback_period)

payback_without_sentinel(cash_flows, project_lifetime) ==
    payback_loop(cash_flows, 1, cash_flows[1], 0).payback_period

\* Lines 266-275.
payback(cash_flows, project_lifetime) ==
    LET after == payback_loop(cash_flows, 1, cash_flows[1], 0)
    IN  IF after.payback_period = 0 /\ Sign(after.cumulative_cf) < 0
        THEN project_lifetime + 1
        ELSE after.payback_period

\* cash_flows, lines 213-238, for a debt service that was computed.
build_cash_flows(equity_amount, annual_revenue, annual_opex, annual_debt_service, project_lifetime, debt_term, tax_rate) ==
    <<Neg(equity_amount)>> \o
    [year \in 1..project_lifetime |->
        cash_flow(year, annual_revenue, annual_opex, annual_debt_service, debt_term,
                  tax_rate)]

\* Lines 199-204.
locals_split(total_capex, annual_opex, debt_percentage) ==
    ("total_capex" :> total_capex) @@ ("annual_opex" :> annual_opex)
    @@ ("debt_amount" :> Mul(total_capex, debt_percentage))
    @@ ("equity_amount" :> Mul(total_capex, Sub(Num(1), debt_percentage)))

\* Lines 213-238 after the debt service of lines 207-210 returned or raised.
locals_after_debt_service(split, annual_debt_service, annual_revenue, project_lifetime, debt_term, tax_rate) ==
    IF annual_debt_service.raised # "none" THEN split
    ELSE split
         @@ ("annual_debt_service" :> annual_debt_service.value)
         @@ ("cash_flows" :>
                build_cash_flows(split["equity_amount"], annual_revenue,
                                 split["annual_opex"], annual_debt_service.value,
                                 project_lifetime, debt_term, tax_rate))

\* Lines 207-238 on the local variables of lines 199-204.
locals_after_split(split, annual_revenue, project_lifetime, debt_interest, debt_term, tax_rate) ==
    locals_after_debt_service(split,
                              debt_service(split["debt_amount"], debt_interest, debt_term),
                              annual_revenue, project_lifetime, debt_term, tax_rate)

\* The local variables of calculate_financial_metrics up to line 238, as far as the
\* call gets: none after the KeyError of line 199, total_capex alone after the
\* KeyError of line 200, no debt service nor cash flows after a ZeroDivisionError in
\* lines 207-210.
financial_metrics_locals(capex, opex, annual_revenue, project_lifetime, discount_rate, debt_percentage, debt_interest, debt_term, tax_rate) ==
    IF "Total CAPEX" \notin DOMAIN capex THEN NoEntries
    ELSE IF "Total OPEX" \notin DOMAIN opex THEN ("total_capex" :> capex["Total CAPEX"])
    ELSE locals_after_split(locals_split(capex["Total CAPEX"], opex["Total OPEX"],
                                         debt_percentage),
                            annual_revenue, project_lifetime, debt_interest, debt_term,
                            tax_rate)

debt_service_coverage_ratio_zero(annual_revenue, annual_opex, annual_debt_service) ==
    IF Sign(annual_debt_service) > 0
    THEN Div(Sub(annual_revenue, annual_opex), annual_debt_service)
    ELSE Zero

\* Line 281.
debt_service_coverage_ratio(annual_revenue, annual_opex, annual_debt_service) ==
    IF Sign(annual_debt_service) > 0
    THEN Div(Sub(annual_revenue, annual_opex), annual_debt_service)
    ELSE INF

\* The dict of lines 277-283 for the irr the search of lines 245-263 ended with.
metrics_dict(vals, irr, annual_revenue, project_lifetime, discount_rate) ==
    ("NPV" :> net_present_value([year |-> 1, acc |-> vals["cash_flows"][1]],
                                vals["cash_flows"], discount_rate))
    @@ ("IRR" :> irr)
    @@ ("Payback Period" :> payback(vals["cash_flows"], project_lifetime))
    @@ ("Debt Service Coverage Ratio" :>
            debt_service_coverage_ratio(annual_revenue, vals["annual_opex"],
                                        vals["annual_debt_service"]))
    @@ ("Equity Return" :> irr)

\* Lines 240-283 on the local variables vals of lines 199-238.
metrics_from_locals(vals, annual_revenue, project_lifetime, discount_rate) ==
    IF "cash_flows" \notin DOMAIN vals THEN Raised("ZeroDivisionError")
    ELSE IF project_lifetime >= 1 /\ Sign(Add(Num(1), discount_rate)) = 0
    THEN Raised("ZeroDivisionError")
    ELSE Returned(metrics_dict(vals, irr_search(vals["cash_flows"], irr_start, 0).irr,
                               annual_revenue, project_lifetime, discount_rate))

calculate_financial_metrics(capex, opex, annual_revenue, project_lifetime, discount_rate, debt_percentage, debt_interest, debt_term, tax_rate) ==
    IF "Total CAPEX" \notin DOMAIN capex \/ "Total OPEX" \notin DOMAIN opex
    THEN Raised("KeyError")
    ELSE metrics_from_locals(
             financial_metrics_locals(capex, opex, annual_revenue, project_lifetime,
                                      discount_rate, debt_percentage, debt_interest,
                                      debt_term, tax_rate),
             annual_revenue, project_lifetime, discount_rate)

(***************************************************************************)
(* Feedstock yield model: src/feedstock_data.py                            *)
(*                                                                         *)
(* A DataFrame is [columns, rows]: the set of its column labels and the    *)
(* sequence of its rows, each a function from column label to float.       *)
(***************************************************************************)
\* pd.DataFrame.from_dict(feedstocks, orient='index') on the dicts in `records`: the
\* columns are the keys met in the dicts, so an empty mapping gives no column at all.
from_dict_index(records) ==
    [columns |-> UNION {DOMAIN records[i] : i \in 1..Len(records)}, rows |-> records]

\* Division of two float columns, element by element: no exception, x/0 is inf, -inf
\* or nan.
series_div(a, b) ==
    IF Sign(b) # 0 THEN Div(a, b)
    ELSE IF Sign(a) > 0 THEN INF
    ELSE IF Sign(a) < 0 THEN Neg(INF)
    ELSE NAN

\* A float column times a positive constant: inf and nan stay what they are.
series_scale(a, c) == IF IsFinite(a) THEN Mul(a, c) ELSE a

YieldInputColumns == {"quantity", "ts", "vs", "bmp", "ch4", "distance", "cost_per_tonne"}

\* Lines 115-139: the columns that follow vs_tonnes, in the order they are added.
yield_columns(r, vs_tonnes) ==
    LET biogas_yield == Mul(vs_tonnes, r["bmp"])
        methane_yield == Mul(biogas_yield, Div(r["ch4"], Num(100)))
        energy_content_kwh == Mul(methane_yield, F(997, 100))
        energy_content_gj == Mul(energy_content_kwh, F(36, 10000))
        transport_cost == Mul(Mul(r["quantity"], r["distance"]), F(1, 10))
        feedstock_cost == Mul(r["quantity"], r["cost_per_tonne"])
        total_cost == Add(transport_cost, feedstock_cost)
        cost_per_gj == series_div(total_cost, energy_content_gj)
        cost_per_mwh == series_scale(cost_per_gj, F(36, 10))
    IN  ("vs_tonnes" :> vs_tonnes)
        @@ ("biogas_yield" :> biogas_yield)
        @@ ("methane_yield" :> methane_yield)
        @@ ("energy_content_kwh" :> energy_content_kwh)
        @@ ("energy_content_gj" :> energy_content_gj)
        @@ ("transport_cost" :> transport_cost)
        @@ ("feedstock_cost" :> feedstock_cost)
        @@ ("total_cost" :> total_cost)
        @@ ("cost_per_gj" :> cost_per_gj)
        @@ ("cost_per_mwh" :> cost_per_mwh)
        @@ r

yield_row_ts_as_fraction(r) ==
    yield_columns(r, Mul(Mul(r["quantity"], r["ts"]), Div(r["vs"], Num(100))))

\* The columns calculate_biogas_yield adds to one row, lines 112-139.
yield_row(r) ==
    yield_columns(r, Mul(Mul(r["quantity"], Div(r["ts"], Num(100))), Div(r["vs"], Num(100))))

YieldOutputColumns == DOMAIN yield_row([c \in YieldInputColumns |-> Zero])

calculate_biogas_yield(feedstock_df) ==
    IF ~(YieldInputColumns \subseteq feedstock_df.columns) THEN Raised("KeyError")
    ELSE Returned([columns |-> feedstock_df.columns \cup YieldOutputColumns,
                   rows |-> [i \in 1..Len(feedstock_df.rows) |->
                                yield_row(feedstock_df.rows[i])]])

\* The objects a call works on are the entries of a heap; a frame variable holds the
\* index of its object.
copy_aliased(heap, ref) == [heap |-> heap, ref |-> ref]

\* feedstock_df.copy(), line 109: a new object with the content of the object ref.
copy(heap, ref) == [heap |-> Append(heap, heap[ref]), ref |-> Len(heap) + 1]

\* Lines 112-139 store the new columns into the object of df; nothing is stored when
\* the first read of a column raises.
store_columns(df, result) ==
    IF result.raised # "none" THEN df.heap
    ELSE [df.heap EXCEPT ![df.ref] = result.value]

\* The heap after calculate_biogas_yield on the object ref of heap, lines 109-139.
yield_heap(heap, ref) ==
    store_columns(copy(heap, ref), calculate_biogas_yield(heap[ref]))

\* What a call hands back for the outcome `result` of its body: the reference of the
\* object it returns, or the exception.
returned_ref(ref, result) == IF result.raised # "none" THEN result ELSE Returned(ref)

\* return df, line 141: the object of df.
yield_ret(heap, ref) ==
    returned_ref(copy(heap, ref).ref, calculate_biogas_yield(heap[ref]))

\* return {...} and pd.DataFrame.from_dict(...): the object returned is a new one;
\* a call that raised made none.
new_object(heap, result) ==
    IF result.raised # "none" THEN heap ELSE Append(heap, result.value)

\* feedstock_df[column].sum()
RECURSIVE column_sum(_, _, _)
column_sum(rows, column, i) ==
    IF i > Len(rows) THEN Zero
    ELSE Add(rows[i][column], column_sum(rows, column, i + 1))

TotalsInputColumns ==
    {"quantity", "vs_tonnes", "biogas_yield", "methane_yield", "energy_content_gj",
     "transport_cost", "feedstock_cost", "total_cost"}

get_total_metrics(feedstock_df) ==
    IF ~(TotalsInputColumns \subseteq feedstock_df.columns) THEN Raised("KeyError")
    ELSE
    LET rows == feedstock_df.rows
        total_energy_content_gj == column_sum(rows, "energy_content_gj", 1)
        total_cost == column_sum(rows, "total_cost", 1)
        total_biogas_yield == column_sum(rows, "biogas_yield", 1)
        avg_cost_per_gj ==
            IF Sign(total_energy_content_gj) > 0
            THEN Div(total_cost, total_energy_content_gj)
            ELSE Zero
        avg_cost_per_mwh ==
            IF Sign(total_energy_content_gj) > 0
            THEN Mul(avg_cost_per_gj, F(36, 10))
            ELSE Zero
    IN  Returned(("total_quantity" :> column_sum(rows, "quantity", 1))
                 @@ ("total_vs_tonnes" :> column_sum(rows, "vs_tonnes", 1))
                 @@ ("total_biogas_yield" :> total_biogas_yield)
                 @@ ("total_methane_yield" :> column_sum(rows, "methane_yield", 1))
                 @@ ("total_energy_content_gj" :> total_energy_content_gj)
                 @@ ("total_transport_cost" :> column_sum(rows, "transport_cost", 1))
                 @@ ("total_feedstock_cost" :> column_sum(rows, "feedstock_cost", 1))
                 @@ ("total_cost" :> total_cost)
                 @@ ("avg_cost_per_gj" :> avg_cost_per_gj)
                 @@ ("avg_cost_per_mwh" :> avg_cost_per_mwh)
                 @@ ("biogas_output_nm3h" :> Div(total_biogas_yield, Num(8760))))

(***************************************************************************)
(* Process sizing model: src/process_calculations.py                       *)
(***************************************************************************)
\* loading_rate=3.5, line 6.
default_loading_rate == F(35, 10)

calculate_digester_size_per_year(total_vs_tonnes, loading_rate) ==
    IF Sign(loading_rate) = 0 THEN Raised("ZeroDivisionError")
    ELSE Returned(Div(Mul(total_vs_tonnes, Num(1000)), loading_rate))

calculate_digester_size(total_vs_tonnes, loading_rate) ==
    LET vs_kg_per_day == Div(Mul(total_vs_tonnes, Num(1000)), Num(365))
    IN  IF Sign(loading_rate) = 0 THEN Raised("ZeroDivisionError")
        ELSE Returned(Div(vs_kg_per_day, loading_rate))

calculate_biogas_to_energy(methane_yield, output_type) ==
    LET total_energy_kwh == Mul(methane_yield, F(997, 100))
        results ==
            ("total_energy_kwh" :> total_energy_kwh)
            @@ ("total_energy_mwh" :> Div(total_energy_kwh, Num(1000)))
            @@ ("total_energy_gj" :> Mul(total_energy_kwh, F(36, 10000)))
        biogas_energy_kwh == Mul(total_energy_kwh, F(98, 100))
        electrical_output_kwh == Mul(total_energy_kwh, F(40, 100))
        thermal_output_kwh == Mul(total_energy_kwh, F(45, 100))
    IN  IF output_type = "biogas"
        THEN results
             @@ ("biogas_energy_kwh" :> biogas_energy_kwh)
             @@ ("biogas_energy_mwh" :> Div(biogas_energy_kwh, Num(1000)))
             @@ ("biogas_energy_gj" :> Mul(biogas_energy_kwh, F(36, 10000)))
        ELSE IF output_type = "chp"
        THEN results
             @@ ("electrical_output_kwh" :> electrical_output_kwh)
             @@ ("electrical_output_mwh" :> Div(electrical_output_kwh, Num(1000)))
             @@ ("thermal_output_kwh" :> thermal_output_kwh)
             @@ ("thermal_output_mwh" :> Div(thermal_output_kwh, Num(1000)))
             @@ ("thermal_output_gj" :> Mul(thermal_output_kwh, F(36, 10000)))
             @@ ("power_capacity_kw" :> Div(electrical_output_kwh, Num(8760)))
             @@ ("heat_capacity_kw" :> Div(thermal_output_kwh, Num(8760)))
        ELSE results

calculate_parasitic_load(digester_volume, output_type) ==
    LET upgrading_load_factor == IF output_type = "biogas" THEN F(15, 10) ELSE Num(1)
        total_parasitic_kwh == Mul(Mul(digester_volume, Num(80)), upgrading_load_factor)
    IN  ("parasitic_load_kwh" :> total_parasitic_kwh)
        @@ ("parasitic_load_mwh" :> Div(total_parasitic_kwh, Num(1000)))
        @@ ("parasitic_load_percentage" :> Zero)

calculate_digestate_production(total_feedstock, total_vs_tonnes, vs_destruction) ==
    LET vs_destroyed == Mul(total_vs_tonnes, vs_destruction)
        digestate_tonnes == Sub(total_feedstock, vs_destroyed)
    IN  ("total_digestate_tonnes" :> digestate_tonnes)
        @@ ("solid_digestate_tonnes" :> Mul(digestate_tonnes, F(25, 100)))
        @@ ("liquid_digestate_tonnes" :> Mul(digestate_tonnes, F(75, 100)))

available_sizes_with_50 == <<50, 100, 250, 500, 800, 1000, 1500, 2000>>

available_sizes == <<100, 250, 500, 800, 1000, 1500, 2000>>

\* sorted(available_sizes) and sorted(available_sizes, reverse=True)
RECURSIVE sorted(_, _)
sorted(sizes, reverse) ==
    IF Len(sizes) = 0 THEN <<>>
    ELSE LET first == CHOOSE i \in 1..Len(sizes) :
                          \A j \in 1..Len(sizes) :
                              /\ (reverse => sizes[j] <= sizes[i])
                              /\ (~reverse => sizes[i] <= sizes[j])
                              /\ (sizes[j] = sizes[i] => i <= j)
             others == SubSeq(sizes, 1, first - 1) \o SubSeq(sizes, first + 1, Len(sizes))
         IN  <<sizes[first]>> \o sorted(others, reverse)

\* The loop of lines 156-159 from the i-th size on: [units, remaining_capacity].
RECURSIVE largest_first(_, _, _, _)
largest_first(units, remaining_capacity, sizes, i) ==
    IF i > Len(sizes) THEN [units |-> units, remaining_capacity |-> remaining_capacity]
    ELSE IF Le(Mul(Num(sizes[i]), F(8, 10)), remaining_capacity)
    THEN largest_first(Append(units, sizes[i]),
                       Sub(remaining_capacity, Num(sizes[i])), sizes, i)
    ELSE largest_first(units, remaining_capacity, sizes, i + 1)

one_more_unit_largest(units, remaining_capacity, sizes) ==
    IF Lt(Num(50), remaining_capacity) /\ Le(remaining_capacity, Num(sizes[Len(sizes)]))
    THEN Append(units, sizes[Len(sizes)])
    ELSE units

one_more_unit_skipped(units, remaining_capacity, sizes) == units

\* Lines 162-167: one more unit, the smallest that covers what remains.
one_more_unit(units, remaining_capacity, sizes) ==
    LET fits == {i \in 1..Len(sizes) : Le(remaining_capacity, Num(sizes[i]))}
        i == CHOOSE k \in fits : \A j \in fits : k <= j
    IN  IF Lt(Num(50), remaining_capacity) /\ fits # {}
        THEN Append(units, sizes[i])
        ELSE units

RECURSIVE sum(_, _)
sum(units, i) == IF i > Len(units) THEN 0 ELSE units[i] + sum(units, i + 1)

utilization_unguarded(power_capacity_kw, total_capacity) ==
    IF total_capacity = 0 THEN Raised("ZeroDivisionError")
    ELSE Returned(Div(power_capacity_kw, Num(total_capacity)))

\* power_capacity_kw / total_capacity if total_capacity > 0 else 0, line 176.
utilization(power_capacity_kw, total_capacity) ==
    IF total_capacity > 0 THEN Returned(Div(power_capacity_kw, Num(total_capacity)))
    ELSE Returned(Zero)

\* sorted(available_sizes, reverse=True) of line 155 and sorted(available_sizes) of
\* line 162.
sizes_largest_first == sorted(available_sizes, TRUE)

sizes_smallest_first == sorted(available_sizes, FALSE)

\* Lines 169-177 on the units selected: the dict returned.
chp_configuration(power_capacity_kw, units, capacity_utilization) ==
    IF capacity_utilization.raised # "none" THEN capacity_utilization
    ELSE Returned([chp_units |-> units,
                   number_of_units |-> Len(units),
                   total_installed_capacity_kw |-> sum(units, 1),
                   capacity_utilization |-> capacity_utilization.value])

\* Lines 161-177 on what the loop of lines 155-158 left.
chp_after_largest_first(power_capacity_kw, units) ==
    chp_configuration(power_capacity_kw, units, utilization(power_capacity_kw, sum(units, 1)))

size_chp_units(power_capacity_kw) ==
    chp_after_largest_first(
        power_capacity_kw,
        one_more_unit(largest_first(<<>>, power_capacity_kw, sizes_largest_first, 1).units,
                      largest_first(<<>>, power_capacity_kw, sizes_largest_first, 1).remaining_capacity,
                      sizes_smallest_first))

(***************************************************************************)
(* Arguments the calls are made on.                                        *)
(***************************************************************************)
Pathways == {"biogas", "chp"}

\* Digester volumes in m3; they reach the three labor tiers of calculate_opex.
Volumes == {Num(1000 * k) : k \in 0..MaxVolumeK}

Capacities == {Num(100 * k) : k \in 0..MaxCapacityK}

FeedstockTotals == {Num(1000 * k) : k \in 0..MaxFeedK}

CapexArgs ==
    [digester_volume : Volumes, output_type : Pathways, chp_capacity : Capacities]

\* Breakdowns a caller of calculate_lcoe passes: it reads the totals alone.
CapexTotals == {Num(50 * k) : k \in 0..MaxCapexK}

OpexTotals == {Num(10 * k) : k \in 0..MaxOpexK}

Energies == {Num(k) : k \in (-1)..MaxEnergy}

Lifetimes == 0..MaxLifetime

\* Discount rates: 0, 0.5, 1, ... and the default 0.08.
Rates == {F(k, 2) : k \in 0..MaxRateK} \cup {F(8, 100)}

LcoeArgs ==
    [capex : {("Total CAPEX" :> x) : x \in CapexTotals} \cup {NoEntries},
     opex : {("Total OPEX" :> x) : x \in OpexTotals},
     annual_energy_output : Energies,
     project_lifetime : Lifetimes,
     discount_rate : Rates]

\* Feedstock rows: a template with round numbers, and the template with one of its
\* columns 0, with free delivery, and with both.
FeedstockTemplate ==
    [quantity |-> Num(100), ts |-> Num(20), vs |-> Num(90), bmp |-> Num(500),
     ch4 |-> Num(60), distance |-> Num(50), cost_per_tonne |-> Num(5)]

FreeFeedstock == [FeedstockTemplate EXCEPT !.distance = Zero, !.cost_per_tonne = Zero]

FeedstockRows ==
    {FeedstockTemplate, FreeFeedstock, [FreeFeedstock EXCEPT !.ts = Zero]}
    \cup {[FeedstockTemplate EXCEPT ![c] = Zero] : c \in {"quantity", "ts", "vs", "bmp", "ch4"}}

\* The frames of up to MaxRows feedstocks built the way the dashboard builds them, and
\* the frame with the feedstock columns and no row.
Frames ==
    {from_dict_index(records) : records \in UNION {[1..n -> FeedstockRows] : n \in 0..MaxRows}}
    \cup {[columns |-> YieldInputColumns, rows |-> <<>>]}

VsTonnes == {Num(500 * k) : k \in 0..MaxVsK}

\* Organic loading rates: 0, 3.5 (the default), 7, ...
LoadingRates == {F(7 * k, 2) : k \in 0..2}

MethaneYields == {Num(100000 * k) : k \in 0..MaxMethaneK}

VsDestructions == {Zero, F(7, 10), Num(1)}

\* Target power capacities in kW.
Targets ==
    {Num(5 * k) : k \in 0..MaxTargetK} \cup {Num(20 * k) : k \in 0..MaxLargeTargetK}

Revenues == {Num(15 * k) : k \in 0..MaxRevenueK}

\* Debt fractions -0.75, 0, 0.75, 1.5, ...: above 1 the equity is negative, below 0
\* the debt and its service are.
DebtFractions == {F(3 * k, 4) : k \in (-1)..MaxDebtK}

\* Debt rates: the branch of line 207 is taken for 0.5 and not for 0 and -0.5.
DebtRates == {F(-1, 2), Zero, F(1, 2)}

FinArgs ==
    [capex : {("Total CAPEX" :> x) : x \in CapexTotals},
     opex : {("Total OPEX" :> x) : x \in {Zero, Num(10)}},
     annual_revenue : Revenues,
     project_lifetime : 0..MaxFinLifetime,
     discount_rate : {Zero, F(1, 2)},
     debt_percentage : DebtFractions,
     debt_interest : DebtRates,
     debt_term : 0..MaxDebtTerm,
     tax_rate : {Zero, F(3, 10)}]

(***************************************************************************)
(* The calls.                                                              *)
(***************************************************************************)
Ready(f, argset) ==
    /\ pc = "ready"
    /\ fn = f
    /\ args \in argset
    /\ ret = Returned(NoEntries)
    /\ prev = NoCall
    /\ locals = NoEntries

InitCost == Ready("calculate_capex", CapexArgs)

CallCapex ==
    /\ pc = "ready" /\ fn = "calculate_capex"
    /\ pc' = "done"
    /\ ret' = Returned(calculate_capex(args.digester_volume, args.output_type,
                                       args.chp_capacity))
    /\ UNCHANGED <<fn, args, prev, locals>>

\* calculate_opex on the breakdown the preceding calculate_capex returned.
CallOpex ==
    /\ Done("calculate_capex")
    /\ \E t \in FeedstockTotals, v \in Volumes, p \in Pathways, c \in Capacities :
        /\ fn' = "calculate_opex"
        /\ args' = [total_feedstock |-> t, digester_volume |-> v, output_type |-> p,
                    capex |-> ret.value, chp_capacity |-> c]
        /\ ret' = calculate_opex(t, v, p, ret.value, c)
    /\ prev' = ThisCall
    /\ UNCHANGED <<pc, locals>>

NextCost == CallCapex \/ CallOpex

SpecCost == InitCost /\ [][NextCost]_vars

InitLcoe == Ready("calculate_lcoe", LcoeArgs)

LcoeOf(a) ==
    calculate_lcoe(a.capex, a.opex, a.annual_energy_output, a.project_lifetime,
                   a.discount_rate)

CallLcoe ==
    /\ pc = "ready" /\ fn = "calculate_lcoe"
    /\ pc' = "done"
    /\ ret' = LcoeOf(args)
    /\ UNCHANGED <<fn, args, prev, locals>>

\* A second call, as in the sensitivity sweep of the dashboard: one argument changed.
CallLcoeAgain ==
    /\ Done("calculate_lcoe")
    /\ prev = NoCall
    /\ \E a \in LcoeArgs :
        /\ a.project_lifetime = args.project_lifetime
        /\ a.discount_rate = args.discount_rate
        /\ \/ a.opex = args.opex /\ a.annual_energy_output = args.annual_energy_output
           \/ a.capex = args.capex /\ a.annual_energy_output = args.annual_energy_output
           \/ a.capex = args.capex /\ a.opex = args.opex
        /\ args' = a
        /\ ret' = LcoeOf(a)
    /\ prev' = ThisCall
    /\ UNCHANGED <<pc, fn, locals>>

NextLcoe == CallLcoe \/ CallLcoeAgain

SpecLcoe == InitLcoe /\ [][NextLcoe]_vars

InitFeed == Ready("calculate_biogas_yield", [feedstock_df : Frames])

CallYield ==
    /\ pc = "ready" /\ fn = "calculate_biogas_yield"
    /\ pc' = "done"
    /\ ret' = calculate_biogas_yield(args.feedstock_df)
    /\ args' = [feedstock_df |-> yield_heap(<<args.feedstock_df>>, 1)[1]]
    /\ UNCHANGED <<fn, prev, locals>>

\* get_total_metrics on the frame the preceding calculate_biogas_yield returned.
CallTotals ==
    /\ Done("calculate_biogas_yield")
    /\ ret.raised = "none"
    /\ fn' = "get_total_metrics"
    /\ args' = [feedstock_df |-> ret.value]
    /\ ret' = get_total_metrics(ret.value)
    /\ prev' = ThisCall
    /\ UNCHANGED <<pc, locals>>

NextFeed == CallYield \/ CallTotals

SpecFeed == InitFeed /\ [][NextFeed]_vars

InitProc ==
    \/ Ready("calculate_digester_size",
             [total_vs_tonnes : VsTonnes, loading_rate : LoadingRates])
    \/ Ready("calculate_digester_size", [total_vs_tonnes : VsTonnes])
    \/ Ready("calculate_biogas_to_energy",
             [methane_yield : MethaneYields, output_type : Pathways])
    \/ Ready("calculate_parasitic_load",
             [digester_volume : Volumes, output_type : Pathways])
    \/ Ready("calculate_digestate_production",
             [total_feedstock : FeedstockTotals, total_vs_tonnes : VsTonnes,
              vs_destruction : VsDestructions])
    \/ Ready("size_chp_units", [power_capacity_kw : Targets])

\* The loading rate of a call: the argument, or the default when none is passed.
LoadingRateOf(a) ==
    IF "loading_rate" \in DOMAIN a THEN a.loading_rate ELSE default_loading_rate

CallDigesterSize ==
    /\ pc = "ready" /\ fn = "calculate_digester_size"
    /\ pc' = "done"
    /\ ret' = calculate_digester_size(args.total_vs_tonnes, LoadingRateOf(args))
    /\ UNCHANGED <<fn, args, prev, locals>>

CallBiogasToEnergy ==
    /\ pc = "ready" /\ fn = "calculate_biogas_to_energy"
    /\ pc' = "done"
    /\ ret' = Returned(calculate_biogas_to_energy(args.methane_yield, args.output_type))
    /\ UNCHANGED <<fn, args, prev, locals>>

CallParasiticLoad ==
    /\ pc = "ready" /\ fn = "calculate_parasitic_load"
    /\ pc' = "done"
    /\ ret' = Returned(calculate_parasitic_load(args.digester_volume, args.output_type))
    /\ UNCHANGED <<fn, args, prev, locals>>

CallDigestate ==
    /\ pc = "ready" /\ fn = "calculate_digestate_production"
    /\ pc' = "done"
    /\ ret' = Returned(calculate_digestate_production(args.total_feedstock,
                           args.total_vs_tonnes, args.vs_destruction))
    /\ UNCHANGED <<fn, args, prev, locals>>

CallSizeChp ==
    /\ pc = "ready" /\ fn = "size_chp_units"
    /\ pc' = "done"
    /\ ret' = size_chp_units(args.power_capacity_kw)
    /\ UNCHANGED <<fn, args, prev, locals>>

NextProc ==
    \/ CallDigesterSize
    \/ CallBiogasToEnergy
    \/ CallParasiticLoad
    \/ CallDigestate
    \/ CallSizeChp

SpecProc == InitProc /\ [][NextProc]_vars

InitFin == Ready("calculate_financial_metrics", FinArgs)

CallFinancialMetrics ==
    /\ pc = "ready" /\ fn = "calculate_financial_metrics"
    /\ pc' = "done"
    /\ ret' = calculate_financial_metrics(args.capex, args.opex, args.annual_revenue,
                  args.project_lifetime, args.discount_rate, args.debt_percentage,
                  args.debt_interest, args.debt_term, args.tax_rate)
    /\ locals' = financial_metrics_locals(args.capex, args.opex, args.annual_revenue,
                  args.project_lifetime, args.discount_rate, args.debt_percentage,
                  args.debt_interest, args.debt_term, args.tax_rate)
    /\ UNCHANGED <<fn, args, prev>>

NextFin == CallFinancialMetrics

SpecFin == InitFin /\ [][NextFin]_vars

\* The example scenario of the debt service: CAPEX totals in millions, the debt
\* fraction 0.7 or none, the debt rate 0.05 or none, debt terms up to MaxLoanTerm.
LoanArgs ==
    [capex : {("Total CAPEX" :> Num(1000000 * k)) : k \in 1..MaxLoanCapexM},
     opex : {("Total OPEX" :> Num(50000))},
     annual_revenue : {Zero, Num(200000)},
     project_lifetime : {0, 1},
     discount_rate : {F(8, 100)},
     debt_percentage : {Zero, F(7, 10)},
     debt_interest : {Zero, F(5, 100)},
     debt_term : 1..MaxLoanTerm,
     tax_rate : {Zero, F(25, 100)}]

InitLoan == Ready("calculate_financial_metrics", LoanArgs)

SpecLoan == InitLoan /\ [][CallFinancialMetrics]_vars

\* The catalog feedstock "Meat" of DEFAULT_FEEDSTOCKS, its quantity scaled by the
\* project scale as the dashboard scales it, and variations of its characteristics.
CatalogRows ==
    [quantity : {Num(2622 * k) : k \in 1..MaxScale},
     ts : {Num(32), Num(20)},
     vs : {Num(92), Num(89)},
     bmp : {F(6284, 10), F(2809, 10)},
     ch4 : {Num(60), Num(55)},
     tkn : {F(275, 100)},
     tan : {F(171, 10)},
     distance : {Num(50), Num(10)},
     cost_per_tonne : {Num(20)}]

InitCatalog ==
    Ready("calculate_biogas_yield",
          [feedstock_df : {from_dict_index(<<r>>) : r \in CatalogRows}])

SpecCatalog == InitCatalog /\ [][CallYield]_vars

(***************************************************************************)
(* The dashboard's session: src/app.py.  locals holds the session state:   *)
(* the heap of dict objects, active_feedstocks (feedstock name -> object), *)
(* active_order (the keys of active_feedstocks in the order the dict keeps *)
(* them: the order of insertion) and project_scale; fn and args name the   *)
(* last operation.                                                         *)
(***************************************************************************)
\* The first two entries of the catalog, src/feedstock_data.py lines 9-31.
DEFAULT_FEEDSTOCKS ==
    ("Meat" :>
        [quantity |-> Num(2622), ts |-> Num(32), vs |-> Num(92), bmp |-> F(6284, 10),
         ch4 |-> Num(60), tkn |-> F(275, 100), tan |-> F(171, 10), distance |-> Num(50),
         cost_per_tonne |-> Num(20)])
    @@ ("Digestate Sludge" :>
        [quantity |-> Num(1495), ts |-> Num(20), vs |-> Num(89), bmp |-> F(2809, 10),
         ch4 |-> Num(55), tkn |-> F(156, 100), tan |-> Num(10), distance |-> Num(10),
         cost_per_tonne |-> Num(5)])

\* The objects of the catalog's entries in the heap.
CatalogRef == ("Meat" :> 1) @@ ("Digestate Sludge" :> 2)

CatalogRefs == {CatalogRef[n] : n \in DOMAIN CatalogRef}

\* The heap when the session starts: the catalog's entries, and free places for the
\* copies (a free place holds the empty dict).
start_heap == <<DEFAULT_FEEDSTOCKS["Meat"], DEFAULT_FEEDSTOCKS["Digestate Sludge"], NoEntries, NoEntries>>

\* DEFAULT_FEEDSTOCKS[feedstock_name].copy(), line 74: a new object with the content
\* of the object ref, at the first free place.
dict_copy(heap, ref) ==
    LET new == CHOOSE i \in DOMAIN heap \ CatalogRefs :
                   /\ heap[i] = NoEntries
                   /\ \A j \in DOMAIN heap \ CatalogRefs : heap[j] = NoEntries => i <= j
    IN  [heap |-> [heap EXCEPT ![new] = heap[ref]], ref |-> new]

\* The session state after active_feedstocks[feedstock_name] = copied, line 74.
with_added(session, feedstock_name, copied) ==
    [session EXCEPT !.heap = copied.heap,
                    !.active_feedstocks = (feedstock_name :> copied.ref) @@ @,
                    !.active_order = Append(@, feedstock_name)]

\* add_feedstock, lines 72-75.
add_feedstock(session, feedstock_name) ==
    IF feedstock_name \notin DOMAIN session.active_feedstocks
    THEN with_added(session, feedstock_name,
                    dict_copy(session.heap, CatalogRef[feedstock_name]))
    ELSE session

\* The heap once nothing refers to the object ref any more, unless the catalog does.
released(heap, ref) == IF ref \in CatalogRefs THEN heap ELSE [heap EXCEPT ![ref] = NoEntries]

\* A sequence of keys without the key `name`.
RECURSIVE without_key(_, _)
without_key(keys, name) ==
    IF keys = <<>> THEN <<>>
    ELSE (IF Head(keys) = name THEN <<>> ELSE <<Head(keys)>>) \o without_key(Tail(keys), name)

remove_feedstock_ignored(session, feedstock_name) == session

\* remove_feedstock, lines 78-81.
remove_feedstock(session, feedstock_name) ==
    IF feedstock_name \in DOMAIN session.active_feedstocks
    THEN [session EXCEPT
             !.heap = released(@, session.active_feedstocks[feedstock_name]),
             !.active_feedstocks =
                 [n \in DOMAIN @ \ {feedstock_name} |-> @[n]],
             !.active_order = without_key(@, feedstock_name)]
    ELSE session

\* The values of the project scale slider of line 97 the model moves it to.
Scales == {F(1, 10), Num(1), Num(2)}

\* The values of st.session_state.active_feedstocks from the i-th key on, in the
\* order of the dict.
RECURSIVE active_records(_, _)
active_records(session, i) ==
    IF i > Len(session.active_order) THEN <<>>
    ELSE <<session.heap[session.active_feedstocks[session.active_order[i]]]>>
         \o active_records(session, i + 1)

\* active_df[target] = active_df[column] * factor; KeyError when the frame has no
\* such column.
scale_column(active_df, target, column, factor) ==
    IF column \notin active_df.columns THEN Raised("KeyError")
    ELSE Returned([columns |-> active_df.columns \cup {target},
                   rows |-> [i \in 1..Len(active_df.rows) |->
                                (target :> Mul(active_df.rows[i][column], factor))
                                @@ active_df.rows[i]]])

\* The loop of lines 160-198 over the session's dicts from the i-th on.  The slider's
\* bounds read feedstock_data['original_quantity'] (lines 169-170); the stores of the
\* sliders' values (lines 173 and 183) come after it, and no dict of a session has that
\* key: the loop raises before it stores.
RECURSIVE slider_bounds(_, _)
slider_bounds(records, i) ==
    IF i > Len(records) THEN Returned(NoEntries)
    ELSE IF getitem(records[i], "original_quantity").raised # "none"
    THEN getitem(records[i], "original_quantity")
    ELSE slider_bounds(records, i + 1)

\* Lines 153-157 on the frame of the active feedstocks, then the loop of line 160.
tab1_frame(active_df, records, project_scale) ==
    IF slider_bounds(records, 1).raised # "none" THEN slider_bounds(records, 1)
    ELSE scale_column(scale_column(active_df, "original_quantity", "quantity", Num(1)).value,
                      "quantity", "original_quantity", project_scale)

\* Tab 1, lines 149-220: the frame handed to calculate_biogas_yield in line 219.
tab1(session) ==
    IF DOMAIN session.active_feedstocks = {} THEN Returned(NoEntries)
    ELSE tab1_frame(from_dict_index(active_records(session, 1)),
                    active_records(session, 1), session.project_scale)

\* Tabs 2 and 3, lines 253-263 and 443-453: the frame handed to calculate_biogas_yield.
tab2(session) ==
    IF DOMAIN session.active_feedstocks = {} THEN Returned(NoEntries)
    ELSE scale_column(from_dict_index(active_records(session, 1)),
                      "quantity", "original_quantity", session.project_scale)

InitApp ==
    /\ pc = "session"
    /\ fn = "none"
    /\ args = NoEntries
    /\ ret = Returned(NoEntries)
    /\ prev = NoCall
    /\ locals = [heap |-> start_heap, active_feedstocks |-> NoEntries,
                 active_order |-> <<>>, project_scale |-> Num(1)]

AddFeedstock ==
    /\ pc = "session"
    /\ \E n \in DOMAIN DEFAULT_FEEDSTOCKS :
        /\ fn' = "add_feedstock"
        /\ args' = [feedstock_name |-> n]
        /\ locals' = add_feedstock(locals, n)
    /\ UNCHANGED <<pc, ret, prev>>

RemoveFeedstock ==
    /\ pc = "session"
    /\ \E n \in DOMAIN DEFAULT_FEEDSTOCKS :
        /\ fn' = "remove_feedstock"
        /\ args' = [feedstock_name |-> n]
        /\ locals' = remove_feedstock(locals, n)
    /\ UNCHANGED <<pc, ret, prev>>

\* The project scale slider, lines 97-99.
SetScale ==
    /\ pc = "session"
    /\ \E x \in Scales :
        /\ fn' = "project_scale"
        /\ args' = [value |-> x]
        /\ locals' = [locals EXCEPT !.project_scale = x]
    /\ UNCHANGED <<pc, ret, prev>>

\* The feedstock section is rendered as far as the call of the yield model.
RenderTab1 ==
    /\ pc = "session"
    /\ fn' = "tab1"
    /\ args' = NoEntries
    /\ ret' = tab1(locals)
    /\ UNCHANGED <<pc, prev, locals>>

\* The process section.
RenderTab2 ==
    /\ pc = "session"
    /\ fn' = "tab2"
    /\ args' = NoEntries
    /\ ret' = tab2(locals)
    /\ UNCHANGED <<pc, prev, locals>>

\* The financial section, which repeats the lines of the process section.
RenderTab3 ==
    /\ pc = "session"
    /\ fn' = "tab3"
    /\ args' = NoEntries
    /\ ret' = tab2(locals)
    /\ UNCHANGED <<pc, prev, locals>>

NextApp ==
    \/ AddFeedstock
    \/ RemoveFeedstock
    \/ SetScale
    \/ RenderTab1
    \/ RenderTab2
    \/ RenderTab3

SpecApp == InitApp /\ [][NextApp]_vars

\* The calls that are handed a feedstock table or a cost breakdown.
(***************************************************************************)
(* The core functions on a pathway the selector does not offer.            *)
(***************************************************************************)
\* The values an output_type argument is given: the two pathways and another string.
AnyPathways == Pathways \cup {"rng"}

InitPathway ==
    \/ Ready("calculate_capex",
             [digester_volume : Volumes, output_type : AnyPathways,
              chp_capacity : Capacities])
    \/ Ready("calculate_parasitic_load",
             [digester_volume : Volumes, output_type : AnyPathways])
    \/ Ready("calculate_biogas_to_energy",
             [methane_yield : MethaneYields, output_type : AnyPathways])

\* calculate_opex as the financial section calls it: on the breakdown calculate_capex
\* returned, for the same volume, pathway and capacity.
CallOpexOfRun ==
    /\ Done("calculate_capex")
    /\ \E t \in FeedstockTotals :
        /\ fn' = "calculate_opex"
        /\ args' = [total_feedstock |-> t, digester_volume |-> args.digester_volume,
                    output_type |-> args.output_type, capex |-> ret.value,
                    chp_capacity |-> args.chp_capacity]
        /\ ret' = calculate_opex(t, args.digester_volume, args.output_type, ret.value,
                                 args.chp_capacity)
    /\ prev' = ThisCall
    /\ UNCHANGED <<pc, locals>>

\* The energy field the financial section hands to calculate_lcoe, lines 491-496.
annual_energy(energy_outputs, output_type) ==
    getitem(energy_outputs,
            IF output_type = "biogas" THEN "biogas_energy_gj" ELSE "electrical_output_mwh")

ReadAnnualEnergy ==
    /\ Done("calculate_biogas_to_energy")
    /\ fn' = "annual_energy"
    /\ args' = [energy_outputs |-> ret.value, output_type |-> args.output_type]
    /\ ret' = annual_energy(ret.value, args.output_type)
    /\ prev' = ThisCall
    /\ UNCHANGED <<pc, locals>>

NextPathway ==
    \/ CallCapex
    \/ CallOpexOfRun
    \/ CallParasiticLoad
    \/ CallBiogasToEnergy
    \/ ReadAnnualEnergy

SpecPathway == InitPathway /\ [][NextPathway]_vars

(***************************************************************************)
(* A caller's session with the core, as the financial section of the       *)
(* dashboard holds one: locals.heap is the heap of objects (object 1 is    *)
(* the module's DEFAULT_FEEDSTOCKS, the others are the caller's table and  *)
(* breakdowns and the objects the calls returned), locals.calls the calls  *)
(* made so far: function, the content of the arguments when it was called, *)
(* and the content of what it returned.  args holds the references passed. *)
(***************************************************************************)
\* The tables, the CAPEX breakdowns and the OPEX breakdowns among the objects.
Tables(heap) == {ref \in DOMAIN heap : DOMAIN heap[ref] = {"columns", "rows"}}

CapexRefs(heap) == {ref \in DOMAIN heap : "Total CAPEX" \in DOMAIN heap[ref]}

OpexRefs(heap) == {ref \in DOMAIN heap : "Total OPEX" \in DOMAIN heap[ref]}

\* The table the caller starts with: one feedstock.
SessionTables == {from_dict_index(<<FeedstockTemplate>>)}

\* The scalar arguments of the session's calls.
SessionArgs ==
    [total_feedstock |-> Num(1000), digester_volume |-> Num(1000),
     chp_capacity |-> Num(100), annual_energy_output |-> Num(5000),
     annual_revenue |-> Num(500000), project_lifetime |-> 1,
     discount_rate |-> F(8, 100), debt_percentage |-> F(1, 2),
     debt_interest |-> Zero, debt_term |-> 1, tax_rate |-> Zero]

\* The breakdowns the caller starts with: those of a plant of pathway p.
session_capex(p) ==
    calculate_capex(SessionArgs.digester_volume, p, SessionArgs.chp_capacity)

session_opex(p) ==
    calculate_opex(SessionArgs.total_feedstock, SessionArgs.digester_volume, p,
                   session_capex(p), SessionArgs.chp_capacity).value

InitPure ==
    /\ pc = "ready"
    /\ fn = "none"
    /\ args = NoEntries
    /\ ret = Returned(NoEntries)
    /\ prev = NoCall
    /\ \E t \in SessionTables, p \in Pathways :
        locals = [heap |-> <<DEFAULT_FEEDSTOCKS, t, session_capex(p), session_opex(p)>>,
                  calls |-> <<>>]

\* The content of what a call handed back: the object of the reference.
deref(heap, r) == IF r.raised # "none" THEN r ELSE Returned(heap[r.value])

\* The call of f on `given` left the heap `heap` and handed back r, of content result.
Called(f, given, heap, r, result) ==
    /\ Len(locals.calls) < MaxCalls
    /\ pc' = "done"
    /\ fn' = f
    /\ ret' = r
    /\ locals' = [heap |-> heap,
                  calls |-> Append(locals.calls,
                                   [fn |-> f, given |-> given, result |-> result])]
    /\ UNCHANGED prev

\* get_feedstock_df(), line 96, on the module's dict.
get_feedstock_df(catalog) ==
    Returned(from_dict_index(<<catalog["Meat"], catalog["Digestate Sludge"]>>))

PureFeedstockDf ==
    /\ args' = NoEntries
    /\ \E result \in {get_feedstock_df(locals.heap[1])} :
        \E heap \in {new_object(locals.heap, result)} :
            Called("get_feedstock_df", [DEFAULT_FEEDSTOCKS |-> locals.heap[1]],
                   heap, returned_ref(Len(heap), result), result)

PureYield ==
    \E ref \in Tables(locals.heap) :
        /\ args' = [feedstock_df |-> ref]
        /\ \E heap \in {yield_heap(locals.heap, ref)}, r \in {yield_ret(locals.heap, ref)} :
            Called("calculate_biogas_yield", [feedstock_df |-> locals.heap[ref]],
                   heap, r, deref(heap, r))

PureTotals ==
    \E ref \in Tables(locals.heap) :
        /\ args' = [feedstock_df |-> ref]
        /\ \E result \in {get_total_metrics(locals.heap[ref])} :
            \E heap \in {new_object(locals.heap, result)} :
                Called("get_total_metrics", [feedstock_df |-> locals.heap[ref]],
                       heap, returned_ref(Len(heap), result), result)

\* calculate_opex on a CAPEX breakdown of the heap, for either pathway.
opex_of(heap, a) ==
    calculate_opex(a.total_feedstock, a.digester_volume, a.output_type, heap[a.capex],
                   a.chp_capacity)

PureOpex ==
    \E capex \in CapexRefs(locals.heap), p \in Pathways :
        \E a \in {[total_feedstock |-> SessionArgs.total_feedstock,
                   digester_volume |-> SessionArgs.digester_volume,
                   output_type |-> p, capex |-> capex,
                   chp_capacity |-> SessionArgs.chp_capacity]} :
            /\ args' = a
            /\ \E result \in {opex_of(locals.heap, a)} :
                \E heap \in {new_object(locals.heap, result)} :
                    Called("calculate_opex", [a EXCEPT !.capex = locals.heap[capex]],
                           heap, returned_ref(Len(heap), result), result)

\* calculate_lcoe on two breakdowns of the heap: it returns a float, no object.
lcoe_of(heap, a) ==
    calculate_lcoe(heap[a.capex], heap[a.opex], a.annual_energy_output,
                   a.project_lifetime, a.discount_rate)

PureLcoe ==
    \E capex \in CapexRefs(locals.heap), opex \in OpexRefs(locals.heap) :
        \E a \in {[capex |-> capex, opex |-> opex,
                   annual_energy_output |-> SessionArgs.annual_energy_output,
                   project_lifetime |-> SessionArgs.project_lifetime,
                   discount_rate |-> SessionArgs.discount_rate]} :
            /\ args' = a
            /\ \E r \in {lcoe_of(locals.heap, a)} :
                Called("calculate_lcoe",
                       [a EXCEPT !.capex = locals.heap[capex], !.opex = locals.heap[opex]],
                       locals.heap, r, r)

\* calculate_financial_metrics on two breakdowns of the heap.
metrics_of(heap, a) ==
    calculate_financial_metrics(heap[a.capex], heap[a.opex], a.annual_revenue,
                                a.project_lifetime, a.discount_rate, a.debt_percentage,
                                a.debt_interest, a.debt_term, a.tax_rate)

PureFinancialMetrics ==
    \E capex \in CapexRefs(locals.heap), opex \in OpexRefs(locals.heap) :
        \E a \in {[capex |-> capex, opex |-> opex,
                   annual_revenue |-> SessionArgs.annual_revenue,
                   project_lifetime |-> SessionArgs.project_lifetime,
                   discount_rate |-> SessionArgs.discount_rate,
                   debt_percentage |-> SessionArgs.debt_percentage,
                   debt_interest |-> SessionArgs.debt_interest,
                   debt_term |-> SessionArgs.debt_term,
                   tax_rate |-> SessionArgs.tax_rate]} :
            /\ args' = a
            /\ \E result \in {metrics_of(locals.heap, a)} :
                \E heap \in {new_object(locals.heap, result)} :
                    Called("calculate_financial_metrics",
                           [a EXCEPT !.capex = locals.heap[capex],
                                     !.opex = locals.heap[opex]],
                           heap, returned_ref(Len(heap), result), result)

NextPure ==
    \/ PureFeedstockDf
    \/ PureYield
    \/ PureTotals
    \/ PureOpex
    \/ PureLcoe
    \/ PureFinancialMetrics

SpecPure == InitPure /\ [][NextPure]_vars

(***************************************************************************)
(* The IRR search of lines 245-263, one pass of its loop at a time.  locals *)
(* holds the local variables of the search: cash_flows, irr, step,         *)
(* direction, npv_at_irr (<<>> while unbound, before the first pass), the  *)
(* number of passes made, and stopped: the last pass ended in the break.   *)
(***************************************************************************)
IrrArgs ==
    [capex : {("Total CAPEX" :> Num(100 * k)) : k \in 0..MaxIrrCapexK},
     opex : {("Total OPEX" :> x) : x \in {Zero, Num(10)}},
     annual_revenue : {Num(60 * k) : k \in 0..MaxIrrRevenueK},
     project_lifetime : 0..MaxIrrLifetime,
     discount_rate : {F(8, 100)},
     debt_percentage : {Zero},
     debt_interest : {F(5, 100)},
     debt_term : {1},
     tax_rate : {Zero, F(3, 10)}]

InitIrr == Ready("calculate_financial_metrics", IrrArgs)

\* Lines 199-249: up to the loop.
IrrEnter ==
    /\ pc = "ready" /\ fn = "calculate_financial_metrics"
    /\ "cash_flows" \in DOMAIN financial_metrics_locals(args.capex, args.opex, args.annual_revenue, args.project_lifetime, args.discount_rate, args.debt_percentage, args.debt_interest, args.debt_term, args.tax_rate)
    /\ pc' = "irr"
    /\ locals' = [cash_flows |-> financial_metrics_locals(args.capex, args.opex, args.annual_revenue, args.project_lifetime, args.discount_rate, args.debt_percentage, args.debt_interest, args.debt_term, args.tax_rate)["cash_flows"],
                  irr |-> irr_start.irr, step |-> irr_start.step,
                  direction |-> irr_start.direction, stopped |-> FALSE,
                  npv_at_irr |-> <<>>, passes |-> 0]
    /\ UNCHANGED <<fn, args, ret, prev>>

\* The search state of irr_pass in the local variables.
SearchOf(vals) ==
    [irr |-> vals.irr, step |-> vals.step, direction |-> vals.direction,
     stopped |-> vals.stopped]

\* The local variables after one more pass that ended in the search state `after`.
AfterPass(vals, after) ==
    [vals EXCEPT !.irr = after.irr, !.step = after.step, !.direction = after.direction,
                 !.stopped = after.stopped, !.passes = vals.passes + 1,
                 !.npv_at_irr = net_present_value([year |-> 1, acc |-> vals.cash_flows[1]],
                                                  vals.cash_flows, vals.irr)]

\* One pass of the loop, lines 251-263.
IrrPass ==
    /\ pc = "irr" /\ locals.passes < 20 /\ ~locals.stopped
    /\ locals' = AfterPass(locals, irr_pass(locals.cash_flows, SearchOf(locals)))
    /\ UNCHANGED <<pc, fn, args, ret, prev>>

\* The loop ends, by the break or after 20 passes.
IrrEnd ==
    /\ pc = "irr" /\ (locals.passes = 20 \/ locals.stopped)
    /\ pc' = "done"
    /\ ret' = calculate_financial_metrics(args.capex, args.opex, args.annual_revenue, args.project_lifetime, args.discount_rate, args.debt_percentage, args.debt_interest, args.debt_term, args.tax_rate)
    /\ UNCHANGED <<fn, args, prev, locals>>

NextIrr == IrrEnter \/ IrrPass \/ IrrEnd

SpecIrr == InitIrr /\ [][NextIrr]_vars

(***************************************************************************)
(* size_chp_units, lines 148-177, one pass of its loops at a time.  locals *)
(* holds units, remaining_capacity and the position i of the for loop of   *)
(* line 155 in sorted(available_sizes, reverse=True).                      *)
(***************************************************************************)
InitChp == Ready("size_chp_units", [power_capacity_kw : Targets])

\* remaining_capacity >= size * 0.8, line 156.
while_fits(remaining_capacity, size) ==
    \E threshold \in {Mul(Num(size), F(8, 10))} : Le(threshold, remaining_capacity)

\* Lines 148-155: up to the first size.
ChpEnter ==
    /\ pc = "ready" /\ fn = "size_chp_units"
    /\ pc' = "largest_first"
    /\ locals' = [units |-> <<>>, remaining_capacity |-> args.power_capacity_kw, i |-> 1]
    /\ UNCHANGED <<fn, args, ret, prev>>

\* The size the for loop of line 155 is at.
SizeAt(i) == sizes_largest_first[i]

\* One pass of the while loop, lines 156-158.
ChpAddUnit ==
    /\ pc = "largest_first" /\ locals.i <= Len(available_sizes)
    /\ while_fits(locals.remaining_capacity, SizeAt(locals.i))
    /\ locals' = [locals EXCEPT !.units = Append(@, SizeAt(locals.i)),
                                !.remaining_capacity = Sub(@, Num(SizeAt(locals.i)))]
    /\ UNCHANGED <<pc, fn, args, ret, prev>>

\* The while loop ends and the for loop goes to the next size.
ChpNextSize ==
    /\ pc = "largest_first" /\ locals.i <= Len(available_sizes)
    /\ ~while_fits(locals.remaining_capacity, SizeAt(locals.i))
    /\ locals' = [locals EXCEPT !.i = @ + 1]
    /\ UNCHANGED <<pc, fn, args, ret, prev>>

\* The local variables after lines 161-166.
AfterOneMore(vals, units) ==
    [vals EXCEPT !.units = units,
                 !.remaining_capacity = IF units = vals.units THEN @ ELSE Zero]

\* The for loop is over: lines 161-166.
ChpOneMore ==
    /\ pc = "largest_first" /\ locals.i > Len(available_sizes)
    /\ pc' = "total"
    /\ locals' = AfterOneMore(locals, one_more_unit(locals.units, locals.remaining_capacity,
                                                    sizes_smallest_first))
    /\ UNCHANGED <<fn, args, ret, prev>>

\* Lines 169-177.
ChpReturn ==
    /\ pc = "total"
    /\ pc' = "done"
    /\ ret' = chp_after_largest_first(args.power_capacity_kw, locals.units)
    /\ UNCHANGED <<fn, args, prev, locals>>

NextChp == ChpEnter \/ ChpAddUnit \/ ChpNextSize \/ ChpOneMore \/ ChpReturn

SpecChp == InitChp /\ [][NextChp]_vars

\* The scheduling of a call: a function that was called runs on.
SpecChpFair == SpecChp /\ WF_vars(NextChp)

\* Any call of any function of the three modules.
Init == InitCost \/ InitLcoe \/ InitFeed \/ InitProc \/ InitFin

Next == NextCost \/ NextLcoe \/ NextFeed \/ NextProc \/ NextFin

Spec == Init /\ [][Next]_vars

(***************************************************************************)
(* Properties of the cost model.                                           *)
(***************************************************************************)
OtherEntries(d, total) == SumOver(d, DOMAIN d \ {total})

\* C1: for every digester volume, pathway and CHP capacity, the 'Total CAPEX'
\* entry calculate_capex returns is the sum of all the other entries it returns.
CapexTotalIsSumOfItems ==
    Done("calculate_capex") =>
        ret.value["Total CAPEX"] = OtherEntries(ret.value, "Total CAPEX")

CapexTotalWitness ==
    /\ Done("calculate_capex")
    /\ args.output_type = "chp"
    /\ Sign(args.digester_volume) > 0
    /\ Sign(args.chp_capacity) > 0
    /\ Sign(ret.value["Contingency"]) > 0

SamePathwayOpex ==
    /\ Done("calculate_opex")
    /\ prev.fn = "calculate_capex"
    /\ prev.args.output_type = args.output_type

\* C2: when calculate_opex is given the breakdown calculate_capex built for the
\* same pathway, it returns a breakdown whose 'Total OPEX' entry is the sum of
\* all its other entries.
OpexTotalIsSumOfItems ==
    SamePathwayOpex =>
        /\ ret.raised = "none"
        /\ ret.value["Total OPEX"] = OtherEntries(ret.value, "Total OPEX")

OpexTotalWitness ==
    /\ SamePathwayOpex
    /\ args.output_type = "biogas"
    /\ Sign(args.digester_volume) > 0
    /\ Sign(args.total_feedstock) > 0
    /\ Sign(ret.value["Utilities"]) > 0
    /\ Sign(ret.value["Biogas Upgrading O&M"]) > 0

(***************************************************************************)
(* Properties of calculate_lcoe.                                           *)
(***************************************************************************)
HasTotals(a) == "Total CAPEX" \in DOMAIN a.capex /\ "Total OPEX" \in DOMAIN a.opex

\* sum over y in 1..lifetime of 1 / (1 + rate)^y, in closed form (rate >= 0).
AnnuityFactor(rate, lifetime) ==
    IF Sign(rate) = 0 THEN Num(lifetime)
    ELSE Div(Sub(Num(1), Div(Num(1), Pow(Add(Num(1), rate), lifetime))), rate)

PVEnergy(a) ==
    Mul(a.annual_energy_output, AnnuityFactor(a.discount_rate, a.project_lifetime))

PVCosts(a) ==
    Add(a.capex["Total CAPEX"],
        Mul(a.opex["Total OPEX"], AnnuityFactor(a.discount_rate, a.project_lifetime)))

\* C5: calculate_lcoe returns exactly 0 whenever annual_energy_output <= 0, and
\* whenever the present value of energy is 0 (a lifetime of 0 years); in neither
\* case does it divide by zero.
LcoeZeroWithoutEnergy ==
    Done("calculate_lcoe") =>
        /\ Sign(args.annual_energy_output) <= 0 => ret = Returned(Zero)
        /\ (HasTotals(args) /\ Sign(PVEnergy(args)) = 0) => ret = Returned(Zero)

LcoeZeroWitness ==
    /\ Done("calculate_lcoe")
    /\ HasTotals(args)
    /\ Sign(args.annual_energy_output) > 0
    /\ args.project_lifetime = 0
    /\ Sign(args.capex["Total CAPEX"]) > 0
    /\ ret = Returned(Zero)

PositiveLcoeArgs(a) ==
    /\ HasTotals(a)
    /\ Sign(a.capex["Total CAPEX"]) > 0
    /\ Sign(a.opex["Total OPEX"]) > 0
    /\ Sign(a.annual_energy_output) > 0
    /\ Sign(a.discount_rate) > 0
    /\ a.project_lifetime >= 1

TwoLcoeCalls ==
    /\ Done("calculate_lcoe")
    /\ prev.fn = "calculate_lcoe"
    /\ PositiveLcoeArgs(args)
    /\ PositiveLcoeArgs(prev.args)
    /\ args.project_lifetime = prev.args.project_lifetime
    /\ args.discount_rate = prev.args.discount_rate

\* C6: for positive totals, energy and discount rate and a lifetime >= 1, of two
\* calls of calculate_lcoe with the same energy output the one with the larger
\* CAPEX and OPEX totals returns no less, and of two calls with the same totals
\* the one with the larger energy output returns no more.
LcoeMonotone ==
    TwoLcoeCalls =>
        /\ ( /\ args.annual_energy_output = prev.args.annual_energy_output
             /\ Le(prev.args.capex["Total CAPEX"], args.capex["Total CAPEX"])
             /\ Le(prev.args.opex["Total OPEX"], args.opex["Total OPEX"]) )
           => Le(prev.ret.value, ret.value)
        /\ ( /\ args.capex = prev.args.capex
             /\ args.opex = prev.args.opex
             /\ Le(prev.args.annual_energy_output, args.annual_energy_output) )
           => Le(ret.value, prev.ret.value)

LcoeMonotoneWitness ==
    /\ TwoLcoeCalls
    /\ args.capex = prev.args.capex
    /\ args.opex = prev.args.opex
    /\ Lt(prev.args.annual_energy_output, args.annual_energy_output)
    /\ Lt(ret.value, prev.ret.value)

\* C7: calculate_lcoe returns PV(costs) / PV(energy), with PV(costs) the CAPEX
\* total plus the OPEX total discounted over the years 1..lifetime and PV(energy)
\* the energy output discounted over the same years at the same rate.
LcoeIsLevelizedCost ==
    ( /\ Done("calculate_lcoe")
      /\ HasTotals(args)
      /\ Sign(args.annual_energy_output) > 0
      /\ args.project_lifetime >= 1 )
    => ret = Returned(Div(PVCosts(args), PVEnergy(args)))

LcoeLevelizedWitness ==
    /\ Done("calculate_lcoe")
    /\ HasTotals(args)
    /\ Sign(args.annual_energy_output) > 0
    /\ args.project_lifetime >= 2
    /\ args.discount_rate = F(8, 100)
    /\ Sign(args.capex["Total CAPEX"]) > 0
    /\ Sign(args.opex["Total OPEX"]) > 0
    /\ ret.raised = "none"

(***************************************************************************)
(* Properties of the feedstock yield model.                                *)
(***************************************************************************)
\* C3: for every feedstock row whose energy content is 0, calculate_biogas_yield
\* reports cost_per_gj = 0 and cost_per_mwh = 0, never an infinite or undefined
\* value.
ZeroEnergyRowsCostZero ==
    (Done("calculate_biogas_yield") /\ ret.raised = "none") =>
        \A i \in 1..Len(ret.value.rows) :
            Sign(ret.value.rows[i]["energy_content_gj"]) = 0 =>
                /\ ret.value.rows[i]["cost_per_gj"] = Zero
                /\ ret.value.rows[i]["cost_per_mwh"] = Zero

\* C4: the yield model followed by get_total_metrics on an empty feedstock set
\* raises nothing and returns 0 for every total, average and rate; and whenever
\* the total energy content is 0 the weighted-average costs are 0.
EmptySetTotalsAreZero ==
    /\ (Done("calculate_biogas_yield") /\ Len(args.feedstock_df.rows) = 0) =>
            ret.raised = "none"
    /\ (Done("get_total_metrics") /\ Len(args.feedstock_df.rows) = 0) =>
            /\ ret.raised = "none"
            /\ \A k \in DOMAIN ret.value : ret.value[k] = Zero
    /\ (Done("get_total_metrics") /\ ret.raised = "none"
            /\ Sign(ret.value["total_energy_content_gj"]) = 0) =>
            /\ ret.value["avg_cost_per_gj"] = Zero
            /\ ret.value["avg_cost_per_mwh"] = Zero

(***************************************************************************)
(* Properties of the process sizing model.                                 *)
(***************************************************************************)
\* C8: size_chp_units(0) returns no unit, 0 units, 0 kW installed and a
\* utilization of 0; whenever no unit is selected the utilization is 0 and the
\* call does not divide by the installed capacity.
NoUnitMeansZeroUtilization ==
    Done("size_chp_units") =>
        /\ ret.raised = "none"
        /\ Sign(args.power_capacity_kw) = 0 => ret.value.chp_units = <<>>
        /\ ret.value.chp_units = <<>> =>
              /\ ret.value.number_of_units = 0
              /\ ret.value.total_installed_capacity_kw = 0
              /\ ret.value.capacity_utilization = Zero

NoUnitWitness ==
    /\ Done("size_chp_units")
    /\ Sign(args.power_capacity_kw) = 0
    /\ ret.raised = "none"
    /\ ret.value.number_of_units = 0

(***************************************************************************)
(* Properties of calculate_financial_metrics.                              *)
(***************************************************************************)
\* The cash flows of the years 0..lifetime that a call with the arguments a builds.
CashFlowsOf(a) ==
    LET total_capex == a.capex["Total CAPEX"]
    IN  build_cash_flows(Mul(total_capex, Sub(Num(1), a.debt_percentage)),
                         a.annual_revenue, a.opex["Total OPEX"],
                         debt_service(Mul(total_capex, a.debt_percentage),
                                      a.debt_interest, a.debt_term).value,
                         a.project_lifetime, a.debt_term, a.tax_rate)

\* The cash flows of the years 0..y added up.
RECURSIVE CumulativeCashFlow(_, _)
CumulativeCashFlow(cash_flows, y) ==
    IF y = 0 THEN cash_flows[1]
    ELSE Add(CumulativeCashFlow(cash_flows, y - 1), cash_flows[y + 1])

\* The years of the project at which the cumulative cash flow is not negative.
NonNegativeYears(a) ==
    {y \in 1..a.project_lifetime : Sign(CumulativeCashFlow(CashFlowsOf(a), y)) >= 0}

MetricsReturned ==
    /\ Done("calculate_financial_metrics")
    /\ ret.raised = "none"
    /\ args.project_lifetime >= 1

\* C9: for a lifetime >= 1 the 'Payback Period' calculate_financial_metrics
\* returns is the least year of 1..lifetime at which the cumulative cash flow of
\* the years 0..y is >= 0, whatever the later years do; it is lifetime + 1 when
\* there is no such year, and it is never 0.
PaybackIsFirstNonNegativeYear ==
    MetricsReturned =>
        LET years == NonNegativeYears(args)
            payback_period == ret.value["Payback Period"]
        IN  /\ payback_period # 0
            /\ years # {} => /\ payback_period \in years
                             /\ \A y \in years : payback_period <= y
            /\ years = {} => payback_period = args.project_lifetime + 1

PaybackSentinelWitness ==
    /\ MetricsReturned
    /\ args.project_lifetime >= 2
    /\ Sign(args.annual_revenue) > 0
    /\ NonNegativeYears(args) = {}
    /\ ret.value["Payback Period"] = args.project_lifetime + 1

(***************************************************************************)
(* Errors.                                                                 *)
(***************************************************************************)
\* A call the pathway makes: the OPEX call is given the CAPEX breakdown of its
\* own pathway, the LCOE call both totals, and no argument is negative.
WellFormedCall ==
    /\ pc = "done"
    /\ fn \in {"calculate_digester_size", "calculate_biogas_to_energy",
               "calculate_parasitic_load", "calculate_digestate_production",
               "size_chp_units", "calculate_capex", "calculate_opex",
               "calculate_lcoe", "calculate_financial_metrics"}
    /\ fn = "calculate_opex" => SamePathwayOpex
    /\ fn = "calculate_lcoe" =>
          HasTotals(args) /\ Sign(args.annual_energy_output) >= 0

\* C10: for the pathways 'biogas' and 'chp' and non-negative arguments, with the
\* OPEX call given the CAPEX breakdown of the same pathway, no call of
\* calculate_digester_size, calculate_biogas_to_energy, calculate_parasitic_load,
\* calculate_digestate_production, size_chp_units, calculate_capex,
\* calculate_opex, calculate_lcoe or calculate_financial_metrics raises.
NoWellFormedCallRaises == WellFormedCall => ret.raised = "none"

(***************************************************************************)
(* The coupling of the OPEX model to the CAPEX breakdown.                  *)
(***************************************************************************)
OpexOnBreakdown == Done("calculate_opex") /\ prev.fn = "calculate_capex"

\* C11: on a breakdown calculate_capex built, calculate_opex with pathway
\* 'biogas' fails with a lookup error exactly when the breakdown has no 'Biogas
\* Upgrading System' entry, and never when the breakdown was built for 'biogas';
\* with pathway 'chp' it returns, and returns what it returns on the breakdown
\* reduced to its 'Total CAPEX' entry.
OpexLookupFailsOnMissingEntry ==
    OpexOnBreakdown =>
        /\ args.output_type = "biogas" =>
              /\ ret.raised \in {"none", "KeyError"}
              /\ ret.raised = "KeyError" <=>
                     "Biogas Upgrading System" \notin DOMAIN args.capex
              /\ prev.args.output_type = "biogas" => ret.raised = "none"
        /\ args.output_type = "chp" =>
              /\ ret.raised = "none"
              /\ ret = calculate_opex(args.total_feedstock, args.digester_volume, "chp",
                                      "Total CAPEX" :> args.capex["Total CAPEX"],
                                      args.chp_capacity)

OpexLookupWitness ==
    /\ OpexOnBreakdown
    /\ args.output_type = "biogas"
    /\ prev.args.output_type = "chp"
    /\ "CHP System" \in DOMAIN args.capex
    /\ ret.raised = "KeyError"

\* C12: the breakdown calculate_capex returns has exactly one pathway entry,
\* 'Biogas Upgrading System' and no 'CHP System' for 'biogas', 'CHP System' and
\* no 'Biogas Upgrading System' for 'chp', and it always has 'Total CAPEX'.
CapexHasOnePathwayEntry ==
    Done("calculate_capex") =>
        LET entries == DOMAIN ret.value
        IN  /\ "Total CAPEX" \in entries
            /\ args.output_type = "biogas" =>
                  entries \cap {"Biogas Upgrading System", "CHP System"}
                      = {"Biogas Upgrading System"}
            /\ args.output_type = "chp" =>
                  entries \cap {"Biogas Upgrading System", "CHP System"} = {"CHP System"}

CapexPathwayEntryWitness ==
    /\ Done("calculate_capex")
    /\ args.output_type = "chp"
    /\ Sign(args.chp_capacity) > 0
    /\ "CHP System" \in DOMAIN ret.value
    /\ Sign(ret.value["CHP System"]) > 0

(***************************************************************************)
(* Properties of the financing split and of the cash flows.                *)
(***************************************************************************)
MetricsDone == Done("calculate_financial_metrics") /\ ret.raised = "none"

\* C13 as stated: in calculate_financial_metrics debt = CAPEX total * debt fraction
\* and equity = CAPEX total * (1 - debt fraction), so that debt + equity = CAPEX
\* total; the annual debt service is the annuity payment
\* debt * r * (1+r)^term / ((1+r)^term - 1) when the debt rate r is not 0, and
\* debt / term exactly when r = 0.
DebtServiceIsAnnuity ==
    MetricsDone =>
        LET total_capex == args.capex["Total CAPEX"]
            r == args.debt_interest
            growth == Pow(Add(Num(1), r), args.debt_term)
            debt == locals["debt_amount"]
            equity == locals["equity_amount"]
            service == locals["annual_debt_service"]
        IN  /\ debt = Mul(total_capex, args.debt_percentage)
            /\ equity = Sub(total_capex, debt)
            /\ Add(debt, equity) = total_capex
            /\ Sign(r) # 0 =>
                  Mul(service, Sub(growth, Num(1))) = Mul(Mul(debt, r), growth)
            /\ Sign(r) = 0 => Mul(service, Num(args.debt_term)) = debt

\* C13, with the test of line 207: debt = CAPEX total * debt fraction and equity =
\* CAPEX total * (1 - debt fraction), so that debt + equity = CAPEX total; the annual
\* debt service is the annuity payment debt * r * (1+r)^term / ((1+r)^term - 1) when
\* the debt rate r is positive, and debt / term when r <= 0.
DebtServiceIsAnnuityForPositiveRate ==
    MetricsDone =>
        LET total_capex == args.capex["Total CAPEX"]
            r == args.debt_interest
            growth == Pow(Add(Num(1), r), args.debt_term)
            debt == locals["debt_amount"]
            equity == locals["equity_amount"]
            service == locals["annual_debt_service"]
        IN  /\ debt = Mul(total_capex, args.debt_percentage)
            /\ equity = Sub(total_capex, debt)
            /\ Add(debt, equity) = total_capex
            /\ Sign(r) > 0 =>
                  Mul(service, Sub(growth, Num(1))) = Mul(Mul(debt, r), growth)
            /\ Sign(r) <= 0 => Mul(service, Num(args.debt_term)) = debt

\* A loan at a negative rate over two years: each year pays half of the debt, which
\* is not the annuity payment of that rate.
DebtServiceNegativeRateWitness ==
    /\ MetricsDone
    /\ Sign(args.debt_interest) < 0
    /\ args.debt_term = 2
    /\ Sign(locals["debt_amount"]) > 0
    /\ locals["annual_debt_service"] = Div(locals["debt_amount"], Num(2))
    /\ Mul(locals["annual_debt_service"],
           Sub(Pow(Add(Num(1), args.debt_interest), 2), Num(1)))
           # Mul(Mul(locals["debt_amount"], args.debt_interest),
                 Pow(Add(Num(1), args.debt_interest), 2))

\* The call computed the debt service of the example: debt 700,000 at 5 % over 10 years.
LoanExample ==
    /\ MetricsDone
    /\ locals["debt_amount"] = Num(700000)
    /\ args.debt_interest = F(5, 100)
    /\ args.debt_term = 10

\* v to the nearest currency unit is k.
RoundsTo(v, k) == Le(F(2 * k - 1, 2), v) /\ Lt(v, F(2 * k + 1, 2))

\* C14 as stated: for debt 700,000, debt rate 0.05 and debt term 10 the annual debt
\* service is 90,663 to the nearest currency unit.
LoanServiceIs90663 == LoanExample => RoundsTo(locals["annual_debt_service"], 90663)

\* C14, amended: for debt 700,000, debt rate 0.05 and debt term 10 the annual debt
\* service is 90,653 to the nearest currency unit.
LoanServiceIs90653 == LoanExample => RoundsTo(locals["annual_debt_service"], 90653)

LoanServiceWitness ==
    /\ LoanExample
    /\ locals["total_capex"] = Num(1000000)
    /\ args.debt_percentage = F(7, 10)
    /\ RoundsTo(locals["annual_debt_service"], 90653)

\* The call got as far as the cash-flow series.
HasCashFlows == pc = "done" /\ fn = "calculate_financial_metrics" /\ "cash_flows" \in DOMAIN locals

\* D_y: the annual debt service in the years of the debt term, 0 afterwards.
DebtServiceOfYear(y) == IF y <= args.debt_term THEN locals["annual_debt_service"] ELSE Zero

\* tax_y = max(0, (revenue - OPEX - 0.3 * D_y) * tax_rate).
TaxOfYear(y) ==
    LET base == Mul(Sub(Sub(args.annual_revenue, args.opex["Total OPEX"]),
                        Mul(F(3, 10), DebtServiceOfYear(y))),
                    args.tax_rate)
    IN  IF Lt(Zero, base) THEN base ELSE Zero

\* C15: the cash-flow series has length lifetime + 1, entry 0 is -equity, and entry y is
\* revenue - OPEX - D_y - tax_y for every year y of the lifetime, with tax_y >= 0.
\* (Entry y of the Python list is element y + 1 of the sequence.)
CashFlowSeriesIsAsStated ==
    HasCashFlows =>
        /\ Len(locals["cash_flows"]) = args.project_lifetime + 1
        /\ locals["cash_flows"][1]
               = Neg(Mul(args.capex["Total CAPEX"], Sub(Num(1), args.debt_percentage)))
        /\ \A y \in 1..args.project_lifetime :
               /\ locals["cash_flows"][y + 1]
                      = Sub(Sub(Sub(args.annual_revenue, args.opex["Total OPEX"]),
                                DebtServiceOfYear(y)),
                            TaxOfYear(y))
               /\ Le(Zero, TaxOfYear(y))

\* A series with a year after the debt term, a debt service and a tax that is charged.
CashFlowSeriesWitness ==
    /\ HasCashFlows
    /\ args.project_lifetime > args.debt_term
    /\ Lt(Zero, locals["annual_debt_service"])
    /\ Lt(Zero, TaxOfYear(1))
    /\ Lt(Zero, locals["cash_flows"][1 + args.project_lifetime])

\* |npv| < 1.
WithinTolerance(npv) == Lt(Num(-1), npv) /\ Lt(npv, Num(1))

\* A step of the model that is a pass of the search loop.
IsIrrPass == pc = "irr" /\ pc' = "irr" /\ locals'.passes = locals.passes + 1

\* The NPV of this pass has another sign than the NPV of the pass before it.
SignFlip ==
    /\ locals.npv_at_irr # <<>>
    /\ Sign(locals'.npv_at_irr) # Sign(locals.npv_at_irr)

IrrPassAsStated ==
    IsIrrPass =>
        /\ locals'.stopped <=> WithinTolerance(locals'.npv_at_irr)
        /\ ~locals'.stopped =>
               locals'.step = IF SignFlip THEN Div(locals.step, Num(2)) ELSE locals.step

\* C16: the search starts at rate 0.10 with step 0.05, makes at most 20 passes, stops as
\* soon as |NPV at the current rate| < 1, and halves the step in a pass exactly when the
\* sign of the NPV differs from the sign of the NPV of the pass before; without a sign
\* flip the step stays 0.05.
IrrSearchAsStated ==
    /\ [](pc = "irr" /\ locals.passes = 0 => locals.irr = F(1, 10) /\ locals.step = F(5, 100))
    /\ [](pc = "irr" => locals.passes <= 20)
    /\ [][IrrPassAsStated]_vars

\* C17 as stated: the Debt Service Coverage Ratio is (revenue - OPEX) / annual debt
\* service when the annual debt service is not zero and infinite exactly when it is
\* zero; a call that computed its debt service returns (nothing is divided by zero).
CoverageRatioIsGuarded ==
    HasCashFlows =>
        /\ ret.raised = "none"
        /\ Sign(locals["annual_debt_service"]) # 0 =>
               ret.value["Debt Service Coverage Ratio"]
                   = Div(Sub(args.annual_revenue, args.opex["Total OPEX"]),
                         locals["annual_debt_service"])
        /\ ret.value["Debt Service Coverage Ratio"] = INF
               <=> Sign(locals["annual_debt_service"]) = 0

\* C17, with the guard of line 281: the Debt Service Coverage Ratio is
\* (revenue - OPEX) / annual debt service when the annual debt service is positive and
\* infinite exactly when it is zero or negative; a call that computed its debt service
\* returns (nothing is divided by zero).
CoverageRatioIsGuardedByPositive ==
    HasCashFlows =>
        /\ ret.raised = "none"
        /\ Sign(locals["annual_debt_service"]) > 0 =>
               ret.value["Debt Service Coverage Ratio"]
                   = Div(Sub(args.annual_revenue, args.opex["Total OPEX"]),
                         locals["annual_debt_service"])
        /\ ret.value["Debt Service Coverage Ratio"] = INF
               <=> Sign(locals["annual_debt_service"]) <= 0

\* A negative debt fraction: the debt service is negative, not zero, and the ratio is
\* reported as infinite although (revenue - OPEX) / debt service is a number.
CoverageRatioNegativeServiceWitness ==
    /\ HasCashFlows
    /\ ret.raised = "none"
    /\ Sign(locals["annual_debt_service"]) < 0
    /\ Lt(args.opex["Total OPEX"], args.annual_revenue)
    /\ ret.value["Debt Service Coverage Ratio"] = INF
    /\ IsFinite(Div(Sub(args.annual_revenue, args.opex["Total OPEX"]),
                    locals["annual_debt_service"]))

(***************************************************************************)
(* The unit selection of size_chp_units against its reference procedure.   *)
(***************************************************************************)
\* The catalog of unit sizes, largest first.
Catalog == <<2000, 1500, 1000, 800, 500, 250, 100>>

\* The reference procedure's first part from the i-th catalog size on: the units added
\* while the remaining target is at least 0.8 times the size.
RECURSIVE ReferenceGreedy(_, _)
ReferenceGreedy(remaining, i) ==
    IF i > Len(Catalog) THEN <<>>
    ELSE IF Le(F(8 * Catalog[i], 10), remaining)
    THEN <<Catalog[i]>> \o ReferenceGreedy(Sub(remaining, Num(Catalog[i])), i)
    ELSE ReferenceGreedy(remaining, i + 1)

RECURSIVE SumOfUnits(_)
SumOfUnits(units) == IF units = <<>> THEN 0 ELSE Head(units) + SumOfUnits(Tail(units))

\* The second part: what remains of the target after `units`, and the smallest size
\* that covers it when it is above 50.
ReferenceExtra(target, units) ==
    LET remaining == Sub(target, Num(SumOfUnits(units)))
        covering == {Catalog[i] : i \in {j \in DOMAIN Catalog : Le(remaining, Num(Catalog[j]))}}
    IN  IF Lt(Num(50), remaining) /\ covering # {}
        THEN <<CHOOSE c \in covering : \A d \in covering : c <= d>>
        ELSE <<>>

ReferenceUnits(target) ==
    ReferenceGreedy(target, 1) \o ReferenceExtra(target, ReferenceGreedy(target, 1))

\* C18: size_chp_units returns the unit list of the reference procedure, its length,
\* its sum, and target / installed capacity as the utilization when a unit is installed.
ChpUnitsFollowReference ==
    Done("size_chp_units") =>
        /\ ret.raised = "none"
        /\ ret.value.chp_units = ReferenceUnits(args.power_capacity_kw)
        /\ ret.value.number_of_units = Len(ret.value.chp_units)
        /\ ret.value.total_installed_capacity_kw = SumOfUnits(ret.value.chp_units)
        /\ ret.value.total_installed_capacity_kw > 0 =>
               ret.value.capacity_utilization
                   = Div(args.power_capacity_kw, Num(ret.value.total_installed_capacity_kw))

\* 2,060 kW: a 2,000 kW unit, and a 100 kW unit for the 60 kW that remain.
ChpUnitsWitness ==
    /\ Done("size_chp_units")
    /\ args.power_capacity_kw = Num(2060)
    /\ ret.raised = "none"
    /\ ret.value.chp_units = <<2000, 100>>
    /\ ret.value.capacity_utilization = F(2060, 2100)

(***************************************************************************)
(* Frame: what a call leaves of the objects it finds.                      *)
(***************************************************************************)
\* The step leaves every object it found on the heap as it was: the table or the
\* breakdowns passed to the call, the module's dict, what earlier calls returned.
LeavesObjects == \A ref \in DOMAIN locals.heap : locals'.heap[ref] = locals.heap[ref]

\* Calls i and j of the session were calls of one function on equal arguments.
SameCall(i, j) ==
    /\ locals.calls[i].fn = locals.calls[j].fn
    /\ locals.calls[i].given = locals.calls[j].given

\* C19: a call leaves the table or the breakdowns passed to it, and every other
\* object it finds, as they were; no call changes the module's state; and two calls of
\* a function with equal arguments return equal results, whatever calls were made
\* before and between them.
CallsArePure ==
    /\ [][LeavesObjects]_vars
    /\ [](locals.heap[1] = DEFAULT_FEEDSTOCKS)
    /\ [](\A i, j \in DOMAIN locals.calls :
              SameCall(i, j) => locals.calls[i].result = locals.calls[j].result)

\* calculate_biogas_yield was called on the caller's table, then calculate_opex on the
\* caller's CAPEX breakdown, then calculate_biogas_yield on the same table again: both
\* returned a table with the derived columns, and neither the caller's table nor the
\* breakdown has what the calls added.
CallsArePureWitness ==
    /\ Len(locals.calls) = 3
    /\ locals.calls[1].fn = "calculate_biogas_yield"
    /\ locals.calls[2].fn = "calculate_opex"
    /\ locals.calls[3].fn = "calculate_biogas_yield"
    /\ locals.calls[1].given = [feedstock_df |-> locals.heap[2]]
    /\ locals.calls[3].given = [feedstock_df |-> locals.heap[2]]
    /\ locals.calls[2].given.capex = locals.heap[3]
    /\ locals.calls[1].result.raised = "none"
    /\ locals.calls[2].result.raised = "none"
    /\ "vs_tonnes" \in locals.calls[3].result.value.columns
    /\ "vs_tonnes" \notin locals.heap[2].columns
    /\ "Total OPEX" \notin DOMAIN locals.heap[3]

(***************************************************************************)
(* The yield formulas and the example of the catalog feedstock.            *)
(***************************************************************************)
\* a and b are the same number.
Eq(a, b) == Sign(Sub(a, b)) = 0

\* v to one decimal is k / 10.
RoundsToTenths(v, k) == Le(F(2 * k - 1, 20), v) /\ Lt(v, F(2 * k + 1, 20))

\* Row i of the returned table follows the three formulas, on the row passed.
YieldFormulasHold(i) ==
    LET given == args.feedstock_df.rows[i]
        row == ret.value.rows[i]
    IN  /\ Eq(row["vs_tonnes"],
              Div(Mul(Mul(given["quantity"], given["ts"]), given["vs"]), Num(10000)))
        /\ Eq(row["biogas_yield"], Mul(row["vs_tonnes"], given["bmp"]))
        /\ Eq(row["methane_yield"],
              Div(Mul(row["biogas_yield"], given["ch4"]), Num(100)))

\* Row i is the catalog feedstock of the example.
IsExampleRow(i) ==
    LET given == args.feedstock_df.rows[i]
    IN  /\ given["quantity"] = Num(2622) /\ given["ts"] = Num(32) /\ given["vs"] = Num(92)
        /\ given["bmp"] = F(6284, 10) /\ given["ch4"] = Num(60)

YieldReturned == Done("calculate_biogas_yield") /\ ret.raised = "none"

\* C20 as stated: the three formulas hold, and the example has VS mass 772.0 t, biogas
\* yield 485,133 and methane yield 291,080.
YieldExampleAsStated ==
    YieldReturned =>
        \A i \in 1..Len(ret.value.rows) :
            /\ YieldFormulasHold(i)
            /\ IsExampleRow(i) =>
                   /\ RoundsToTenths(ret.value.rows[i]["vs_tonnes"], 7720)
                   /\ RoundsTo(ret.value.rows[i]["biogas_yield"], 485133)
                   /\ RoundsTo(ret.value.rows[i]["methane_yield"], 291080)

\* C20, amended: the three formulas hold, and the example has VS mass 771.9 t, biogas
\* yield 485,073 and methane yield 291,044.
YieldExampleAmended ==
    YieldReturned =>
        \A i \in 1..Len(ret.value.rows) :
            /\ YieldFormulasHold(i)
            /\ IsExampleRow(i) =>
                   /\ RoundsToTenths(ret.value.rows[i]["vs_tonnes"], 7719)
                   /\ RoundsTo(ret.value.rows[i]["biogas_yield"], 485073)
                   /\ RoundsTo(ret.value.rows[i]["methane_yield"], 291044)

YieldExampleWitness ==
    /\ YieldReturned
    /\ Len(ret.value.rows) = 1
    /\ IsExampleRow(1)
    /\ ret.value.rows[1]["vs_tonnes"] = F(7719168, 10000)
    /\ RoundsTo(ret.value.rows[1]["methane_yield"], 291044)

(***************************************************************************)
(* The digester volume.                                                     *)
(***************************************************************************)
\* C21: for total_vs_tonnes >= 0 and loading_rate > 0 calculate_digester_size returns
\* (total_vs_tonnes * 1000 / 365) / loading_rate, the rate being 3.5 when none is
\* passed; for 1000 tonnes and the default rate the result is within 0.1 of 782.7,
\* and it is 0 for 0 tonnes.
DigesterSizeIsAsStated ==
    Done("calculate_digester_size") /\ Sign(LoadingRateOf(args)) > 0 =>
        /\ ret.raised = "none"
        /\ "loading_rate" \notin DOMAIN args =>
               Eq(Mul(Mul(ret.value, Num(365)), F(35, 10)),
                  Mul(args.total_vs_tonnes, Num(1000)))
        /\ "loading_rate" \in DOMAIN args =>
               Eq(Mul(Mul(ret.value, Num(365)), args.loading_rate),
                  Mul(args.total_vs_tonnes, Num(1000)))
        /\ args.total_vs_tonnes = Num(1000) /\ "loading_rate" \notin DOMAIN args =>
               Le(F(7826, 10), ret.value) /\ Le(ret.value, F(7828, 10))
        /\ Sign(args.total_vs_tonnes) = 0 => ret.value = Zero

\* The example: 1000 tonnes at the default rate.
DigesterSizeWitness ==
    /\ Done("calculate_digester_size")
    /\ "loading_rate" \notin DOMAIN args
    /\ args.total_vs_tonnes = Num(1000)
    /\ ret.raised = "none"
    /\ Lt(F(7827, 10), ret.value) /\ Lt(ret.value, F(7828, 10))

(***************************************************************************)
(* The active feedstock set of the dashboard.                              *)
(***************************************************************************)
\* The entry of an active feedstock in a session state.
ActiveEntry(session, n) == session.heap[session.active_feedstocks[n]]

\* The entries of the active feedstocks by name.
ActiveSet(session) ==
    [n \in DOMAIN session.active_feedstocks |-> ActiveEntry(session, n)]

\* The catalog as the session sees it.
CatalogNow(session) == [n \in DOMAIN CatalogRef |-> session.heap[CatalogRef[n]]]

\* The keys of a sequence are distinct.
Distinct(keys) == \A i, j \in DOMAIN keys : keys[i] = keys[j] => i = j

\* C22: the active set is a mapping whose keys are distinct catalog names; adding an
\* active name and removing a name that is not active change nothing; an added entry
\* starts equal to its template; no operation changes the catalog.
ActiveSetIsKept ==
    /\ [](pc = "session" =>
            /\ DOMAIN locals.active_feedstocks \subseteq DOMAIN DEFAULT_FEEDSTOCKS
            /\ Distinct(locals.active_order)
            /\ {locals.active_order[i] : i \in DOMAIN locals.active_order}
                   = DOMAIN locals.active_feedstocks
            /\ CatalogNow(locals) = DEFAULT_FEEDSTOCKS)
    /\ [][pc = "session" /\ fn' = "add_feedstock" =>
            IF args'.feedstock_name \in DOMAIN locals.active_feedstocks
            THEN locals' = locals
            ELSE /\ ActiveSet(locals')
                      = (args'.feedstock_name :> DEFAULT_FEEDSTOCKS[args'.feedstock_name])
                        @@ ActiveSet(locals)]_vars
    /\ [][pc = "session" /\ fn' = "remove_feedstock" =>
            IF args'.feedstock_name \in DOMAIN locals.active_feedstocks
            THEN ActiveSet(locals')
                     = [n \in DOMAIN locals.active_feedstocks \ {args'.feedstock_name}
                            |-> ActiveEntry(locals, n)]
            ELSE locals' = locals]_vars

\* 'Meat' was added to a session that had 'Digestate Sludge': its entry is the
\* template's content in an object of its own, after the other entry.
ActiveSetWitness ==
    /\ pc = "session"
    /\ fn = "add_feedstock"
    /\ args.feedstock_name = "Meat"
    /\ locals.active_order = <<"Digestate Sludge", "Meat">>
    /\ locals.active_feedstocks["Meat"] \notin CatalogRefs
    /\ ActiveEntry(locals, "Meat") = DEFAULT_FEEDSTOCKS["Meat"]
    /\ CatalogNow(locals) = DEFAULT_FEEDSTOCKS

\* A section was rendered on a session with an active feedstock.
RenderedWithFeedstocks ==
    /\ pc = "session"
    /\ fn \in {"tab1", "tab2", "tab3"}
    /\ DOMAIN locals.active_feedstocks # {}

\* C23: with a non-empty active set and any project scale, each of the three sections
\* gets as far as the yield model, on a frame whose quantities are the feedstocks'
\* original quantities times the project scale.
RescalingFindsOriginalQuantity ==
    RenderedWithFeedstocks =>
        /\ ret.raised = "none"
        /\ \A i \in 1..Len(ret.value.rows) :
               ret.value.rows[i]["quantity"]
                   = Mul(active_records(locals, 1)[i]["quantity"], locals.project_scale)

\* C24: whenever size_chp_units selects a unit, the target is at least 0.8 of the
\* installed capacity.
UtilizationAtLeast80 ==
    (Done("size_chp_units") /\ ret.raised = "none" /\ ret.value.number_of_units > 0) =>
        Le(F(8, 10), ret.value.capacity_utilization)

\* What remains of the target after the units added while 0.8 of a size fits.
ResidualTarget(target) == Sub(target, Num(SumOfUnits(ReferenceGreedy(target, 1))))

\* C24, amended: whenever size_chp_units selects a unit, the target is at least 0.8 of
\* the installed capacity if at most 50 kW remained after the largest-first selection,
\* and more than 0.5 of it if a further unit was added for what remained.
UtilizationAtLeast80OrHalf ==
    (Done("size_chp_units") /\ ret.raised = "none" /\ ret.value.number_of_units > 0) =>
        IF Le(ResidualTarget(args.power_capacity_kw), Num(50))
        THEN Le(F(8, 10), ret.value.capacity_utilization)
        ELSE Lt(F(1, 2), ret.value.capacity_utilization)

\* 55 kW: one 100 kW unit at 0.55 of its capacity.
UtilizationWitness ==
    /\ Done("size_chp_units")
    /\ args.power_capacity_kw = Num(55)
    /\ ret.raised = "none"
    /\ ret.value.chp_units = <<100>>
    /\ ret.value.capacity_utilization = F(55, 100)

\* The search loop was entered.
InIrrSearch == pc \in {"irr", "done"} /\ fn = "calculate_financial_metrics" /\ "irr" \in DOMAIN locals

\* C25: in the IRR search the trial rate is always within [-0.4, 1.1], so 1 + rate is
\* positive; the NPV is evaluated at most 20 times; the returned rate is the last trial
\* rate, and after an early stop it is a rate at which |NPV| < 1.
IrrRateStaysInRange ==
    InIrrSearch =>
        /\ Le(F(-4, 10), locals.irr) /\ Le(locals.irr, F(11, 10))
        /\ Lt(Zero, Add(Num(1), locals.irr))
        /\ locals.passes <= 20
        /\ locals.stopped =>
               WithinTolerance(net_present_value([year |-> 1, acc |-> locals.cash_flows[1]],
                                                 locals.cash_flows, locals.irr))
        /\ pc = "done" =>
               /\ ret.raised = "none"
               /\ ret.value["IRR"] = locals.irr
               /\ locals.passes < 20 => locals.stopped

\* A project that loses money in every year: 20 passes down to the rate -0.4.
IrrRangeWitness ==
    /\ InIrrSearch
    /\ pc = "done"
    /\ locals.passes = 20
    /\ ret.value["IRR"] = F(-4, 10)

(***************************************************************************)
(* The loops of size_chp_units.                                            *)
(***************************************************************************)
\* The largest-first loop is over and lines 161-166 come next.
AfterLargestFirst == pc = "largest_first" /\ locals.i > Len(available_sizes)

\* The step of lines 161-166.
IsOneMore == AfterLargestFirst /\ pc' = "total"

NonIncreasing(units) == \A j \in 1..(Len(units) - 1) : units[j] >= units[j + 1]

\* The call returned what the loops left in units.
ChpReturned == Done("size_chp_units") /\ "units" \in DOMAIN locals

OneMoreAsStated ==
    IsOneMore =>
        /\ locals'.units \in {locals.units, Append(locals.units, 100)}
        /\ Lt(Num(50), locals.remaining_capacity) => locals'.units # locals.units

\* C26: after the largest-first loop less than 80 kW of the target remains; lines
\* 161-166 append at most one unit, always the 100 kW size, and do append one whenever
\* more than 50 kW remains; the installed capacity returned is at least target - 50, and
\* the units returned are in non-increasing order of size.
ChpFallbackAsStated ==
    /\ [](AfterLargestFirst => Lt(locals.remaining_capacity, Num(80)))
    /\ [][OneMoreAsStated]_vars
    /\ [](ChpReturned =>
            /\ ret.raised = "none"
            /\ ret.value.chp_units = locals.units
            /\ Le(Sub(args.power_capacity_kw, Num(50)),
                  Num(ret.value.total_installed_capacity_kw))
            /\ NonIncreasing(ret.value.chp_units))

\* 2,060 kW: a 100 kW unit was appended for the 60 kW left after the 2,000 kW unit.
ChpFallbackWitness ==
    /\ ChpReturned
    /\ args.power_capacity_kw = Num(2060)
    /\ ret.value.chp_units = <<2000, 100>>
    /\ locals.remaining_capacity = Zero

\* A step that is one pass of the while loop of line 156.
IsWhilePass ==
    /\ pc = "largest_first" /\ pc' = "largest_first"
    /\ Len(locals'.units) = Len(locals.units) + 1

RECURSIVE SumOfFirst(_, _)
SumOfFirst(units, n) == IF n = 0 THEN 0 ELSE units[n] + SumOfFirst(units, n - 1)

\* The units of the list that were added when what remained of the target was negative.
AddedBelowZero(target, units) ==
    {j \in 1..Len(units) : Lt(Sub(target, Num(SumOfFirst(units, j - 1))), Zero)}

\* The loops of the call were entered.
InChpLoops == fn = "size_chp_units" /\ "units" \in DOMAIN locals

\* C27: size_chp_units returns for every target; each pass of the while loop takes at
\* least 100 off the remaining target; at most one unit is added once the remaining
\* target is negative; there are never more than target / 100 + 1 units.
ChpSizingTerminates ==
    /\ <>(pc = "done")
    /\ [][IsWhilePass =>
            Le(Add(locals'.remaining_capacity, Num(100)), locals.remaining_capacity)]_vars
    /\ [](InChpLoops =>
            /\ Cardinality(AddedBelowZero(args.power_capacity_kw, locals.units)) <= 1
            /\ Le(Num(Len(locals.units)),
                  Add(Div(args.power_capacity_kw, Num(100)), Num(1))))

\* 5,000 kW: two 2,000 kW units and a 1,000 kW unit, 5,000 kW taken off in three passes.
ChpSizingWitness ==
    /\ Done("size_chp_units") /\ InChpLoops
    /\ args.power_capacity_kw = Num(5000)
    /\ locals.units = <<2000, 2000, 1000>>
    /\ ret.value.number_of_units = 3

(***************************************************************************)
(* A pathway that is neither 'biogas' nor 'chp'.                           *)
(***************************************************************************)
\* A call on another pathway than the two has returned or raised.
OnOtherPathway(f) == Done(f) /\ args.output_type \notin Pathways

\* C28: on a pathway that is neither 'biogas' nor 'chp', calculate_capex, calculate_opex
\* and calculate_parasitic_load return what they return for 'chp'; calculate_biogas_to_energy
\* returns the fields it returns for 'chp', with their values; and the energy field of
\* the LCOE is found.
OtherPathwayIsChp ==
    /\ OnOtherPathway("calculate_capex") =>
           ret = Returned(calculate_capex(args.digester_volume, "chp", args.chp_capacity))
    /\ OnOtherPathway("calculate_opex") =>
           ret = calculate_opex(args.total_feedstock, args.digester_volume, "chp",
                                args.capex, args.chp_capacity)
    /\ OnOtherPathway("calculate_parasitic_load") =>
           ret = Returned(calculate_parasitic_load(args.digester_volume, "chp"))
    /\ OnOtherPathway("calculate_biogas_to_energy") =>
           ret = Returned(calculate_biogas_to_energy(args.methane_yield, "chp"))
    /\ OnOtherPathway("annual_energy") => ret.raised = "none"

====
